---- MODULE Spec2Model ----
(***************************************************************************)
(* A model of pystages: the Stage base class (validation of a new          *)
(* position, move_to, home and the wait loop) as every driver uses it, the *)
(* SMC100 serial Link (query, response, retry) with the SMC100 status      *)
(* decoding, and the M3-FS response framing.                               *)
(*                                                                         *)
(* Python's None and Optional values are modelled as sets: {} is None and  *)
(* {x} is the value x.  Exceptions are modelled by a variable holding what *)
(* was raised, and a call that raised ends in the control state "raised".  *)
(***************************************************************************)
EXTENDS Integers, Sequences, FiniteSets, TLC

VARIABLES
    \* ---- Stage (stage.py) and the drivers' Stage operations
    driver,        \* which subclass of Stage the instance is
    addresses,     \* SMC100 / PI: the controller addresses of the instance
    num_axis,      \* Stage.num_axis
    minimums,      \* Stage._minimums: None or a vector of optional components
    maximums,      \* Stage._maximums
    wait_routine,  \* TRUE when Stage.wait_routine is set
    pc,            \* where the running Stage call is
    call,          \* the running Stage call: operation, value, wait
    exc,           \* what the running call raised (None if nothing)
    sent,          \* commands written to the transport during the running call
    events,        \* polls and wait_routine invocations of the running call
    polls,         \* number of polls of the running call that found the stage busy
    devMoving,     \* the device: the controllers that are moving or homing
    \* ---- SMC100 Link (smc100.py)
    linkRx,        \* bytes sent by the controllers and not read yet
    linkPending,   \* queries the controllers have received and not answered yet
    lpc,           \* where the running Link / SMC100 call is
    lcall,         \* the running call: operation, addresses, index, command
    linkLog,       \* writes (with their text) and reads of the running call, in order
    lastResp,      \* the last Link.response of the running call: its
                   \* arguments, the line received and the outcome
    lret,          \* what the running call returned (None while it has not)
    lexc,          \* what the running call raised (None if nothing)
    \* ---- M3FS (m3fs.py)
    m3pc,          \* where M3FS.__receive is
    m3read,        \* the outcome of every serial.read(1) of the running __receive
    m3result,      \* the bytearray `result` of __receive
    m3ret,         \* what __receive returned (None while it has not)
    m3exc,         \* what __receive raised (None if nothing)
    m3call,        \* the M3FS operation running: __receive alone, command or __init__
    m3dev,         \* None, or the bytes the device still has to send
    m3sent,        \* the texts written to the serial port by the running operation
    m3out,         \* how the running command or __init__ ended (None while it has not)
    \* ---- CNCRouter (cncrouter.py)
    cncpc,         \* where the running CNCRouter operation is
    cnccall,       \* the running CNCRouter operation and its counters
    cncStatus,     \* the local `status` of get_current_status
    cncLog,        \* the writes and the reads of the running get_current_status, in order
    cncOut,        \* how the running operation ended (None while it has not)
    cncRecv,       \* the locals of CNCRouter.receive read byte by byte
    \* ---- PI (pi.py)
    pipc,          \* where the running PI.query is
    picall,        \* the running PI.query: its arguments and the reply of the device
    piLog,         \* the texts written by the running query
    piOut,         \* how the running query ended (None while it has not)
    \* ---- one operation of a driver run on its own (tic.py, corvus.py,
    \*      smc100.py, vector.py)
    runpc,         \* where the running operation is
    runcall,       \* the running operation and its arguments
    runLog,        \* what the running operation has exchanged with the device
    runOut         \* how the running operation ended (None while it has not)

stageVars == <<driver, addresses, num_axis, minimums, maximums, wait_routine,
               pc, call, exc, sent, events, polls, devMoving>>
linkVars == <<linkRx, linkPending, lpc, lcall, linkLog, lastResp, lret, lexc>>
m3Vars == <<m3pc, m3read, m3result, m3ret, m3exc, m3call, m3dev, m3sent, m3out>>
cncVars == <<cncpc, cnccall, cncStatus, cncLog, cncOut, cncRecv>>
piVars == <<pipc, picall, piLog, piOut>>
runVars == <<runpc, runcall, runLog, runOut>>
vars == <<stageVars, linkVars, m3Vars, cncVars, piVars, runVars>>

\* What the operations of one part leave alone.
exceptStage == <<linkVars, m3Vars, cncVars, piVars, runVars>>
exceptLink == <<stageVars, m3Vars, cncVars, piVars, runVars>>
exceptM3 == <<stageVars, linkVars, cncVars, piVars, runVars>>
exceptCNC == <<stageVars, linkVars, m3Vars, piVars, runVars>>
exceptPI == <<stageVars, linkVars, m3Vars, cncVars, runVars>>
exceptRun == <<stageVars, linkVars, m3Vars, cncVars, piVars>>

None == {}
Some(x) == {x}
The(s) == CHOOSE x \in s : TRUE

\* Bounds of the model.
MaxLen == 3       \* longest vector a caller passes to the position setter
Limit == 1        \* the value of a software limit that is set
MaxPolls == 2     \* polls of one call that may find the stage still busy

\* Vector components: below, at and above a limit.
Vals == (Limit - 1)..(Limit + 1)
Drivers == {"Corvus", "CNCRouter", "M3FS", "SMC100", "PI", "Tic"}
Vectors(n) == [1..n -> Vals]
\* The vectors a caller passes: every vector of the stage's dimension, and the
\* vectors of the other lengths up to MaxLen with equal components.
InputVectors(n) ==
    Vectors(n) \cup {[i \in 1..k |-> v] : k \in (1..MaxLen) \ {n}, v \in Vals}
\* A bound vector: every component is unset or set to Limit.
BoundVectors(n) == [1..n -> {None, Some(Limit)}]

(***************************************************************************)
(* Stage: validation                                                       *)
(***************************************************************************)

\* Vector(dim=n): n components, all 0.
ZeroVector(n) == [i \in 1..n |-> 0]

\* check_dimension accepting a vector with components to spare.
check_dimension_atleast(value) == num_axis <= Len(value)

\* Stage.check_dimension: TRUE when no error is raised.
check_dimension(value) == num_axis = Len(value)

RECURSIVE check_range_from(_, _, _, _)
\* The loop of Stage.check_range from index i on; mins and maxs are vectors of
\* optional components.  The result names the error raised, "ok" if none.
check_range_from(mins, maxs, value, i) ==
    IF i > Len(value) THEN "ok"
    ELSE IF mins[i] # None /\ value[i] < The(mins[i]) THEN "range_min"
    ELSE IF maxs[i] # None /\ value[i] > The(maxs[i]) THEN "range_max"
    ELSE check_range_from(mins, maxs, value, i + 1)

\* check_range returning as soon as one of the two bound vectors is None.
check_range_either(value) ==
    IF minimums = None \/ maximums = None THEN "ok"
    ELSE check_range_from(The(minimums), The(maximums), value, 1)

\* Stage.check_range: a bound vector that is None is replaced by the value itself.
check_range(value) ==
    IF minimums = None /\ maximums = None THEN "ok"
    ELSE LET asBound == [i \in 1..Len(value) |-> Some(value[i])]
             mins == IF minimums = None THEN asBound ELSE The(minimums)
             maxs == IF maximums = None THEN asBound ELSE The(maximums)
         IN  IF Len(mins) # Len(value) \/ Len(maxs) # Len(value)
             THEN "range_dimension"
             ELSE check_range_from(mins, maxs, value, 1)

\* Stage.position.fset: check_dimension, then check_range.
StagePositionSetter(value) ==
    IF ~check_dimension(value) THEN "dimension" ELSE check_range(value)

(***************************************************************************)
(* The drivers: what each writes to its transport                          *)
(***************************************************************************)

\* The controllers of the device: SMC100 and PI have one per address, the other
\* drivers talk to one controller that reports one status for all its axes.
Controllers == IF driver \in {"SMC100", "PI"} THEN 1..Len(addresses) ELSE {1}

\* The writes of the driver's position setter once validation has passed.
SetterWrites ==
    CASE driver = "Corvus" -> <<"3 setdim", "move">>
      [] driver = "CNCRouter" -> <<"G0">>
      [] driver = "M3FS" -> <<"<08>">>
      [] driver = "SMC100" -> <<"MM1", "PA">>
      [] driver = "PI" -> [i \in 1..Len(addresses) |-> "MOV"]
      [] driver = "Tic" -> <<"EXIT_SAFE_START", "SET_TARGET_POSITION">>

\* The drivers whose position setter waits for the end of the move itself.
SetterBlocks == driver \in {"M3FS", "Tic"}

\* The number of controllers is_moving asks: SMC100 and PI ask them in order and
\* stop at the first that is moving.
AskedAxes ==
    IF devMoving = {} THEN Cardinality(Controllers)
    ELSE CHOOSE i \in devMoving : \A j \in devMoving : i <= j

\* The writes of one evaluation of the driver's is_moving.
IsMovingWrites ==
    CASE driver = "Corvus" -> <<"st">>
      [] driver = "CNCRouter" -> <<"?">>
      [] driver = "M3FS" -> <<"<10>">>
      [] driver = "SMC100" -> [i \in 1..AskedAxes |-> "TS?"]
      [] driver = "PI" -> [i \in 1..AskedAxes |-> "#5"]
      [] driver = "Tic" -> <<>>

\* The value of the driver's is_moving. Tic answers False without asking.
is_moving == IF driver = "Tic" THEN FALSE ELSE devMoving # {}

\* The writes of the driver's home() before it waits. M3FS has none of its
\* own: Stage.home moves to the zero vector.
HomeWrites ==
    CASE driver = "Corvus" -> <<"cal">>
      [] driver = "CNCRouter" -> <<"$H">>
      [] driver = "SMC100" ->
            [i \in 1..(2 * Len(addresses)) |-> IF i % 2 = 1 THEN "TS?" ELSE "OR"]
      [] driver = "PI" ->
            [i \in 1..(2 * Len(addresses)) |-> IF i % 2 = 1 THEN "SVO" ELSE "FNL"]
      [] driver = "Tic" -> <<"EXIT_SAFE_START", "GO_HOME">>
      [] driver = "M3FS" -> <<>>

PollEvents == {"poll_T", "poll_F", "setter_poll_T", "setter_poll_F",
               "home_poll_T", "home_poll_F"}

(***************************************************************************)
(* Stage: the operations                                                   *)
(***************************************************************************)

NoCall == [op |-> "none", value |-> <<>>, wait |-> FALSE]

StartCall(c) ==
    /\ call' = c
    /\ exc' = None
    /\ sent' = <<>>
    /\ events' = <<>>
    /\ polls' = 0

\* stage.position = value
CallSetPosition(value) ==
    /\ pc = "idle"
    /\ StartCall([op |-> "set_position", value |-> value, wait |-> FALSE])
    /\ pc' = "setter"
    /\ UNCHANGED <<driver, addresses, num_axis, minimums, maximums, wait_routine,
                   devMoving>>
    /\ UNCHANGED exceptStage

\* stage.move_to(value, wait): its first statement is self.position = value.
CallMoveTo(value, wait) ==
    /\ pc = "idle"
    /\ StartCall([op |-> "move_to", value |-> value, wait |-> wait])
    /\ pc' = "setter"
    /\ UNCHANGED <<driver, addresses, num_axis, minimums, maximums, wait_routine,
                   devMoving>>
    /\ UNCHANGED exceptStage

\* Where a call goes when the position setter has returned.
AfterSetter == IF call.op # "set_position" /\ call.wait THEN "wait" ELSE "done"

\* The driver's position setter: the base class validates, and only then the
\* driver writes the move. M3FS and Tic go on to wait for the end of the move.
PositionSetter ==
    /\ pc = "setter"
    /\ LET res == StagePositionSetter(call.value)
       IN  IF res # "ok"
           THEN /\ exc' = Some(res)
                /\ pc' = "raised"
                /\ UNCHANGED <<sent, events, devMoving>>
           ELSE /\ sent' = sent \o SetterWrites
                /\ devMoving' \in SUBSET Controllers
                /\ IF SetterBlocks
                   THEN pc' = "setter_wait" /\ events' = events
                   ELSE pc' = AfterSetter /\ events' = Append(events, "set")
                /\ exc' = exc
    /\ UNCHANGED <<driver, addresses, num_axis, minimums, maximums, wait_routine,
                   call, polls>>
    /\ UNCHANGED exceptStage

\* One turn of the loop that ends the position setter of M3FS (while
\* self.is_moving: pass) and of Tic (while self.position.x != value.x: sleep,
\* exit_safe_start).
SetterPoll ==
    /\ pc = "setter_wait"
    /\ devMoving = {} \/ polls < MaxPolls
    /\ LET ask == IF driver = "M3FS" THEN "<10>" ELSE "GET_VARIABLE"
       IN  IF devMoving # {}
           THEN /\ sent' = IF driver = "Tic"
                           THEN sent \o <<ask, "EXIT_SAFE_START">>
                           ELSE Append(sent, ask)
                /\ events' = Append(events, "setter_poll_T")
                /\ polls' = polls + 1
                /\ pc' = pc
           ELSE /\ sent' = Append(sent, ask)
                /\ events' = events \o <<"setter_poll_F", "set">>
                /\ polls' = polls
                /\ pc' = AfterSetter
    /\ UNCHANGED <<driver, addresses, num_axis, minimums, maximums, wait_routine,
                   call, exc, devMoving>>
    /\ UNCHANGED exceptStage

\* wait_move_finished leaving its loop on the first poll, whatever it returned.
AfterPoll_once(moving) == "done"

\* Stage.wait_move_finished: where the loop goes after a poll of is_moving.
AfterPoll(moving) ==
    IF moving THEN (IF wait_routine THEN "routine" ELSE "wait") ELSE "done"

\* Stage.wait_move_finished: one evaluation of `while self.is_moving`.
WaitPoll ==
    /\ pc = "wait"
    /\ ~is_moving \/ polls < MaxPolls
    /\ sent' = sent \o IsMovingWrites
    /\ IF is_moving
       THEN /\ events' = Append(events, "poll_T")
            /\ polls' = polls + 1
       ELSE /\ events' = Append(events, "poll_F")
            /\ polls' = polls
    /\ pc' = AfterPoll(is_moving)
    /\ UNCHANGED <<driver, addresses, num_axis, minimums, maximums, wait_routine,
                   call, exc, devMoving>>
    /\ UNCHANGED exceptStage

\* Stage.wait_move_finished: self.wait_routine() in the body of the loop.
WaitRoutine ==
    /\ pc = "routine"
    /\ events' = Append(events, "routine")
    /\ pc' = "wait"
    /\ UNCHANGED <<driver, addresses, num_axis, minimums, maximums, wait_routine,
                   call, exc, sent, polls, devMoving>>
    /\ UNCHANGED exceptStage

\* stage.home(wait)
CallHome(wait) ==
    /\ pc = "idle"
    /\ StartCall([op |-> "home", value |-> <<>>, wait |-> wait])
    /\ pc' = "home"
    /\ UNCHANGED <<driver, addresses, num_axis, minimums, maximums, wait_routine,
                   devMoving>>
    /\ UNCHANGED exceptStage

\* The body of home(). Stage.home (M3FS) is move_to(Vector(dim=num_axis), wait);
\* the other drivers send their homing command and then wait if asked:
\* Corvus, SMC100, CNCRouter and Tic with wait_move_finished, PI with its own loop.
Home ==
    /\ pc = "home"
    /\ IF driver = "M3FS"
       THEN /\ call' = [call EXCEPT !.value = ZeroVector(num_axis)]
            /\ pc' = "setter"
            /\ UNCHANGED <<sent, devMoving>>
       ELSE /\ sent' = sent \o HomeWrites
            /\ devMoving' \in (SUBSET Controllers) \ {{}}
            /\ pc' = IF ~call.wait THEN "done"
                     ELSE IF driver = "PI" THEN "pi_wait" ELSE "wait"
            /\ call' = call
    /\ UNCHANGED <<driver, addresses, num_axis, minimums, maximums, wait_routine,
                   exc, events, polls>>
    /\ UNCHANGED exceptStage

\* PI.home: one turn of `while self.is_moving: time.sleep(0.1)`.
PIHomePoll ==
    /\ pc = "pi_wait"
    /\ ~is_moving \/ polls < MaxPolls
    /\ sent' = sent \o IsMovingWrites
    /\ IF is_moving
       THEN /\ events' = Append(events, "home_poll_T")
            /\ polls' = polls + 1
            /\ pc' = pc
       ELSE /\ events' = Append(events, "home_poll_F")
            /\ polls' = polls
            /\ pc' = "done"
    /\ UNCHANGED <<driver, addresses, num_axis, minimums, maximums, wait_routine,
                   call, exc, devMoving>>
    /\ UNCHANGED exceptStage

\* The call returns to its caller, or its exception reaches the caller.
Return ==
    /\ pc \in {"done", "raised"}
    /\ pc' = "idle"
    /\ StartCall(NoCall)
    /\ UNCHANGED <<driver, addresses, num_axis, minimums, maximums, wait_routine,
                   devMoving>>
    /\ UNCHANGED exceptStage

\* stage.minimums = value: a vector is accepted only with num_axis components.
SetMinimums(value) ==
    /\ pc = "idle"
    /\ IF value # None /\ ~check_dimension(The(value))
       THEN UNCHANGED minimums
       ELSE minimums' = value
    /\ UNCHANGED <<driver, addresses, num_axis, maximums, wait_routine,
                   pc, call, exc, sent, events, polls, devMoving>>
    /\ UNCHANGED exceptStage

\* stage.maximums = value
SetMaximums(value) ==
    /\ pc = "idle"
    /\ IF value # None /\ ~check_dimension(The(value))
       THEN UNCHANGED maximums
       ELSE maximums' = value
    /\ UNCHANGED <<driver, addresses, num_axis, minimums, wait_routine,
                   pc, call, exc, sent, events, polls, devMoving>>
    /\ UNCHANGED exceptStage

\* stage.wait_routine = a callable, or None
SetWaitRoutine(b) ==
    /\ pc = "idle"
    /\ wait_routine' = b
    /\ UNCHANGED <<driver, addresses, num_axis, minimums, maximums,
                   pc, call, exc, sent, events, polls, devMoving>>
    /\ UNCHANGED exceptStage

\* The device: a controller reaches its target or ends its homing.
DeviceSettles ==
    /\ \E i \in devMoving : devMoving' = devMoving \ {i}
    /\ UNCHANGED <<driver, addresses, num_axis, minimums, maximums, wait_routine,
                   pc, call, exc, sent, events, polls>>
    /\ UNCHANGED exceptStage

(***************************************************************************)
(* Values of the variables of the parts a specification leaves alone       *)
(***************************************************************************)

StageIdle ==
    /\ driver = "Corvus" /\ addresses = <<>> /\ num_axis = 3
    /\ minimums = None /\ maximums = None /\ wait_routine = FALSE
    /\ pc = "idle" /\ call = NoCall /\ exc = None
    /\ sent = <<>> /\ events = <<>> /\ polls = 0 /\ devMoving = {}

LinkIdle ==
    /\ linkRx = <<>> /\ linkPending = <<>> /\ lpc = "idle"
    /\ lcall = [op |-> "none"] /\ linkLog = <<>>
    /\ lastResp = None /\ lret = None /\ lexc = None

M3Idle ==
    /\ m3pc = "idle" /\ m3read = <<>> /\ m3result = <<>>
    /\ m3ret = None /\ m3exc = None
    /\ m3call = [op |-> "none"] /\ m3dev = None /\ m3sent = <<>> /\ m3out = None

CNCIdle ==
    /\ cncpc = "idle" /\ cnccall = [op |-> "none"] /\ cncStatus = <<>>
    /\ cncLog = <<>> /\ cncOut = None /\ cncRecv = [pc |-> "idle"]

PIIdle == pipc = "idle" /\ picall = [op |-> "none"] /\ piLog = <<>> /\ piOut = None
RunIdle == runpc = "idle" /\ runcall = [op |-> "none"] /\ runLog = <<>> /\ runOut = None

(***************************************************************************)
(* Specification of the Stage operations, for each driver                  *)
(***************************************************************************)

\* The instance after construction: Corvus and CNCRouter have 3 axes, M3FS and
\* Tic the default 1, SMC100 and PI one axis per address; no limit is set and
\* there is no wait routine.
InitStage ==
    /\ driver \in Drivers
    /\ addresses \in IF driver \in {"SMC100", "PI"}
                     THEN {<<1>>, <<1, 2>>} ELSE {<<>>}
    /\ num_axis = CASE driver \in {"Corvus", "CNCRouter"} -> 3
                    [] driver \in {"M3FS", "Tic"} -> 1
                    [] driver \in {"SMC100", "PI"} -> Len(addresses)
    /\ minimums = None /\ maximums = None /\ wait_routine = FALSE
    /\ pc = "idle" /\ call = NoCall /\ exc = None
    /\ sent = <<>> /\ events = <<>> /\ polls = 0 /\ devMoving = {}
    /\ LinkIdle /\ M3Idle /\ CNCIdle /\ PIIdle /\ RunIdle

NextStage ==
    \/ \E v \in InputVectors(num_axis) : CallSetPosition(v)
    \/ \E v \in InputVectors(num_axis), w \in BOOLEAN : CallMoveTo(v, w)
    \/ \E w \in BOOLEAN : CallHome(w)
    \/ PositionSetter
    \/ SetterPoll
    \/ WaitPoll
    \/ WaitRoutine
    \/ Home
    \/ PIHomePoll
    \/ Return
    \/ \E n \in 1..MaxLen : \E b \in {None} \cup {Some(x) : x \in BoundVectors(n)} :
          SetMinimums(b)
    \/ \E n \in 1..MaxLen : \E b \in {None} \cup {Some(x) : x \in BoundVectors(n)} :
          SetMaximums(b)
    \/ \E b \in BOOLEAN : SetWaitRoutine(b)
    \/ DeviceSettles

SpecStage == InitStage /\ [][NextStage]_vars


(***************************************************************************)
(* SMC100: text on the serial line                                         *)
(***************************************************************************)

\* Text is a sequence of characters; the serial line carries their codes.
CR == "\r"
LF == "\n"
NUL == "NUL"
Chars == <<"0", "1", "2", "3", "4", "5", "6", "7", "8", "9",
           "A", "B", "C", "D", "E", "F", "G", "P", "S", "T", "?", CR, LF, NUL>>
Codes == <<48, 49, 50, 51, 52, 53, 54, 55, 56, 57,
           65, 66, 67, 68, 69, 70, 71, 80, 83, 84, 63, 13, 10, 0>>
Ord(c) == Codes[CHOOSE i \in 1..Len(Chars) : Chars[i] = c]
Chr(n) == Chars[CHOOSE i \in 1..Len(Codes) : Codes[i] = n]
\* str.encode()
Encode(text) == [i \in 1..Len(text) |-> Ord(text[i])]

RECURSIVE ToDec(_)
\* f"{address}": the decimal digits of a natural number.
ToDec(n) == IF n < 10 THEN <<Chars[n + 1]>> ELSE ToDec(n \div 10) \o <<Chars[(n % 10) + 1]>>

\* f'{"" if address is None else address}{command}': address is None or Some(n).
QueryString(address, command) ==
    (IF address = None THEN <<>> ELSE ToDec(The(address))) \o command

\* text[lo - 1 : hi] of Python: the characters lo..hi that exist.
Slice(text, lo, hi) ==
    LET last == IF hi < Len(text) THEN hi ELSE Len(text)
    IN  IF lo > last THEN <<>> ELSE SubSeq(text, lo, last)

RECURSIVE receive_from(_, _)
\* The loop of Link.receive on the bytes of the input buffer: the high bit of a
\* byte is masked, LF ends the line, CR and NUL are dropped.  The result is the
\* line and the bytes left in the buffer.
receive_from(bytes, response) ==
    LET c == Head(bytes) % 128
    IN  IF c = 10 THEN [line |-> response, rest |-> Tail(bytes)]
        ELSE IF c \notin {13, 0} THEN receive_from(Tail(bytes), Append(response, Chr(c)))
        ELSE receive_from(Tail(bytes), response)

\* Link.receive blocks until a line has arrived.
LineAvailable(bytes) == \E i \in 1..Len(bytes) : bytes[i] % 128 = 10

\* Link.response returning the tail without looking at the header.
response_unchecked(address, command, res) ==
    LET query_string == QueryString(address, command)
    IN  [kind |-> "ok", payload |-> Slice(res, Len(query_string) + 1, Len(res))]

\* Link.response on the received line res: the payload after the header, or
\* ProtocolError(query_string, res).
response(address, command, res) ==
    LET query_string == QueryString(address, command)
    IN  IF Slice(res, 1, Len(query_string)) # query_string
        THEN [kind |-> "ProtocolError", query |-> query_string, response |-> res]
        ELSE [kind |-> "ok", payload |-> Slice(res, Len(query_string) + 1, Len(res))]

(***************************************************************************)
(* SMC100: decoding of the status                                          *)
(***************************************************************************)

\* class State
State == [NOT_REFERENCED_FROM_RESET |-> 10, NOT_REFERENCED_FROM_HOMING |-> 11,
          NOT_REFERENCED_FROM_CONFIGURATION |-> 12, NOT_REFERENCED_FROM_DISABLE |-> 13,
          NOT_REFERENCED_FROM_READY |-> 14, NOT_REFERENCED_FROM_MOVING |-> 15,
          NOT_REFERENCED_STAGE_ERROR |-> 16, NOT_REFERENCED_FROM_JOGGING |-> 17,
          CONFIGURATION |-> 20, HOMING_RS232 |-> 30, HOMING_SMCRC |-> 31,
          MOVING |-> 40, READY_FROM_HOMING |-> 50, READY_FROM_MOVING |-> 51,
          READY_FROM_DISABLE |-> 52, READY_FROM_JOGGING |-> 53,
          DISABLE_FROM_READY |-> 60, DISABLE_FROM_MOVING |-> 61,
          DISABLE_FROM_JOGGING |-> 62, JOGGING_FROM_READY |-> 70,
          JOGGING_FROM_DISABLE |-> 71]

\* class Error: the bit of every flag.
Error == [OUTPUT_POWER_EXCEEDED |-> 9, DC_VOLTAGE_TOO_LOW |-> 8, WRONG_STAGE |-> 7,
          HOMING_TIMEOUT |-> 6, FOLLOWING_ERROR |-> 5, SHORT_CIRCUIT |-> 4,
          RMS_CURRENT_LIMIT |-> 3, PEAK_CURRENT_LIMIT |-> 2,
          POSITIVE_END_OF_RUN |-> 1, NEGATIVE_END_OF_RUN |-> 0]

HexDigits == <<"0", "1", "2", "3", "4", "5", "6", "7", "8", "9",
               "A", "B", "C", "D", "E", "F">>
IsHex(text) == \A i \in 1..Len(text) : \E d \in 1..16 : HexDigits[d] = text[i]

RECURSIVE HexValue(_)
\* int(text, 16) of hexadecimal digits.
HexValue(text) ==
    IF text = <<>> THEN 0
    ELSE 16 * HexValue(SubSeq(text, 1, Len(text) - 1))
         + (CHOOSE d \in 0..15 : HexDigits[d + 1] = text[Len(text)])

RECURSIVE Pow2(_)
Pow2(n) == IF n = 0 THEN 1 ELSE 2 * Pow2(n - 1)
BitSet(v, b) == (v \div Pow2(b)) % 2 = 1

\* ErrorAndState.is_moving and is_ready of a state name.
ES_is_moving(state) == State[state] = State.MOVING
ES_is_ready(state) ==
    State[state] >= State.READY_FROM_HOMING /\ State[state] <= State.READY_FROM_JOGGING

\* get_error_and_state reading the state from the first digits and the faults
\* from the last.
decode_error_and_state_swapped(res) ==
    IF Len(res) # 6
    THEN [kind |-> "ProtocolError", query |-> <<"T", "S">>, response |-> res]
    ELSE [kind |-> "ok",
          error |-> {f \in DOMAIN Error : BitSet(HexValue(SubSeq(res, 3, 6)), Error[f])},
          state |-> IF \E n \in DOMAIN State : State[n] = HexValue(SubSeq(res, 1, 2))
                    THEN CHOOSE n \in DOMAIN State : State[n] = HexValue(SubSeq(res, 1, 2))
                    ELSE "MOVING"]

\* SMC100.get_error_and_state on the payload res of the TS query: a payload that
\* is not 6 characters long raises ProtocolError("TS", res); int(.., 16) raises
\* ValueError on a character that is no hexadecimal digit, Error(..) on a bit
\* that is no flag and State(..) on a value that is no state.
decode_error_and_state(res) ==
    IF Len(res) # 6
    THEN [kind |-> "ProtocolError", query |-> <<"T", "S">>, response |-> res]
    ELSE IF ~IsHex(res) THEN [kind |-> "ValueError"]
    ELSE LET e == HexValue(SubSeq(res, 1, 4))
             v == HexValue(SubSeq(res, 5, 6))
         IN  IF e >= Pow2(10) THEN [kind |-> "ValueError"]
             ELSE IF ~\E n \in DOMAIN State : State[n] = v THEN [kind |-> "ValueError"]
             ELSE [kind |-> "ok",
                   error |-> {f \in DOMAIN Error : BitSet(e, Error[f])},
                   state |-> CHOOSE n \in DOMAIN State : State[n] = v]

\* float(res) of the digits of a TP payload (ValueError otherwise).
IsDigits(text) == text # <<>> /\ \A i \in 1..Len(text) : \E d \in 1..10 : HexDigits[d] = text[i]
RECURSIVE DecValue(_)
DecValue(text) ==
    IF text = <<>> THEN 0
    ELSE 10 * DecValue(SubSeq(text, 1, Len(text) - 1))
         + (CHOOSE d \in 0..9 : HexDigits[d + 1] = text[Len(text)])

(***************************************************************************)
(* SMC100: the Link and the queries of the stage                           *)
(***************************************************************************)

MaxWrites == 3      \* writes of one call (the first query and its retries)
MaxLazy == 1        \* answers of lazy queries that are not fetched yet

TS == <<"T", "S">>
TP == <<"T", "P">>

\* What a controller answers after the echoed header.
Payloads(command) ==
    IF command = TS
    THEN {<<"0", "0", "0", "0", "2", "8">>, <<"0", "0", "0", "0", "3", "3">>,
          <<"0", "2", "0", "3", "1", "E">>, <<"0", "0", "2", "8">>,
          <<"0", "0", "0", "0", "F", "F">>, <<"8", "0", "0", "0", "2", "8">>,
          <<"0", "0", "G", "0", "2", "8">>}
    ELSE {<<"5">>, <<"1", "2">>}

\* The lines that may arrive in answer to a query: the echo and a payload; and,
\* for one payload, the same with bytes the receiver cleans (a NUL first, the
\* high bit set on the first character), the answer of another controller, the
\* line without its first character; an empty line.
ReplyBytes(address, command) ==
    LET good == {QueryString(address, command) \o p : p \in Payloads(command)}
        one == IF command = TS THEN <<"0", "0", "0", "0", "2", "8">> ELSE <<"5">>
        t == QueryString(address, command) \o one
        eol == <<13, 10>>
    IN  {Encode(g) \o eol : g \in good}
        \cup {<<0, Ord(t[1]) + 128>> \o Encode(Tail(t)) \o eol,
              Encode(QueryString(Some(The(address) + 1), command) \o one) \o eol,
              Encode(Tail(t)) \o eol,
              eol}

\* The lines in the input buffer.
LinesIn(bytes) == Cardinality({i \in 1..Len(bytes) : bytes[i] % 128 = 10})

NoLinkCall == [op |-> "none"]

StartLinkCall(c) ==
    /\ lcall' = c
    /\ linkLog' = <<>>
    /\ lastResp' = None
    /\ lret' = None
    /\ lexc' = None

\* link.query(address, command, lazy_res)
CallQuery(address, command, lazy_res) ==
    /\ lpc = "idle"
    /\ lazy_res => Len(linkPending) + LinesIn(linkRx) < MaxLazy
    /\ StartLinkCall([op |-> "query", addrs |-> <<address>>, idx |-> 1,
                      command |-> command, lazy |-> lazy_res, result |-> <<>>])
    /\ lpc' = "send"
    /\ UNCHANGED <<linkRx, linkPending>>
    /\ UNCHANGED exceptLink

\* link.response(address, command), as called to fetch the answer of a lazy query
CallResponse(address, command) ==
    /\ lpc = "idle"
    /\ linkPending # <<>> \/ linkRx # <<>>
    /\ StartLinkCall([op |-> "response", addrs |-> <<address>>, idx |-> 1,
                      command |-> command, lazy |-> FALSE, result |-> <<>>])
    /\ lpc' = "recv"
    /\ UNCHANGED <<linkRx, linkPending>>
    /\ UNCHANGED exceptLink

\* smc100.position (getter) of an instance with the addresses addrs
CallPosition(addrs) ==
    /\ lpc = "idle"
    /\ StartLinkCall([op |-> "position", addrs |-> addrs, idx |-> 1,
                      command |-> TP, lazy |-> FALSE, result |-> <<>>])
    /\ lpc' = "send"
    /\ UNCHANGED <<linkRx, linkPending>>
    /\ UNCHANGED exceptLink

\* smc100.get_error_and_state(addr)
CallGetErrorAndState(addr) ==
    /\ lpc = "idle"
    /\ StartLinkCall([op |-> "get_error_and_state", addrs |-> <<addr>>, idx |-> 1,
                      command |-> TS, lazy |-> FALSE, result |-> <<>>])
    /\ lpc' = "send"
    /\ UNCHANGED <<linkRx, linkPending>>
    /\ UNCHANGED exceptLink

\* Link.query returning after the send whether lazy_res is set or not.
LinkSend_nofetch ==
    /\ lpc = "send"
    /\ Len(SelectSeq(linkLog, LAMBDA e : e.ev = "w")) < MaxWrites
    /\ LET address == lcall.addrs[lcall.idx]
           to_send == QueryString(address, lcall.command \o <<"?">>) \o <<CR, LF>>
       IN  /\ linkLog' = Append(linkLog, [ev |-> "w", text |-> to_send])
           /\ linkPending' = Append(linkPending,
                                    [address |-> address, command |-> lcall.command])
    /\ lpc' = "done" /\ lret' = Some("None")
    /\ UNCHANGED <<linkRx, lcall, lastResp, lexc>>
    /\ UNCHANGED exceptLink

\* Link.query: self.send(address, command + "?"); a lazy query returns None.
LinkSend ==
    /\ lpc = "send"
    /\ Len(SelectSeq(linkLog, LAMBDA e : e.ev = "w")) < MaxWrites
    /\ LET address == lcall.addrs[lcall.idx]
           to_send == QueryString(address, lcall.command \o <<"?">>) \o <<CR, LF>>
       IN  /\ linkLog' = Append(linkLog, [ev |-> "w", text |-> to_send])
           /\ linkPending' = Append(linkPending,
                                    [address |-> address, command |-> lcall.command])
    /\ IF lcall.lazy
       THEN lpc' = "done" /\ lret' = Some("None")
       ELSE lpc' = "recv" /\ lret' = lret
    /\ UNCHANGED <<linkRx, lcall, lastResp, lexc>>
    /\ UNCHANGED exceptLink

\* What the caller of link.query does with the payload: query returns it, the
\* position getter stores float(res) and goes to the next address,
\* get_error_and_state decodes it.
AfterPayload(payload) ==
    CASE lcall.op \in {"query", "response"} ->
            [lpc |-> "done", idx |-> lcall.idx, result |-> <<>>,
             ret |-> Some(payload), exc |-> None]
      [] lcall.op = "position" ->
            IF ~IsDigits(payload)
            THEN [lpc |-> "raised", idx |-> lcall.idx, result |-> lcall.result,
                  ret |-> None, exc |-> Some([kind |-> "ValueError"])]
            ELSE LET result == Append(lcall.result, DecValue(payload))
                 IN  IF lcall.idx = Len(lcall.addrs)
                     THEN [lpc |-> "done", idx |-> lcall.idx, result |-> result,
                           ret |-> Some(result), exc |-> None]
                     ELSE [lpc |-> "send", idx |-> lcall.idx + 1, result |-> result,
                           ret |-> None, exc |-> None]
      [] lcall.op = "get_error_and_state" ->
            LET d == decode_error_and_state(payload)
            IN  IF d.kind = "ok"
                THEN [lpc |-> "done", idx |-> lcall.idx, result |-> <<>>,
                      ret |-> Some(d), exc |-> None]
                ELSE [lpc |-> "raised", idx |-> lcall.idx, result |-> <<>>,
                      ret |-> None, exc |-> Some(d)]

\* Link.query on ProtocolError: `return self.query(address, command, lazy_res)`,
\* which sends the query again.
OnProtocolError_query == "send"

\* Link.response, and in Link.query what follows it: the line is received and
\* its header checked; in query a ProtocolError is caught and the query is
\* sent again, a direct call of response raises it to the caller.
LinkResponse ==
    /\ lpc = "recv"
    /\ LineAvailable(linkRx)
    /\ LET got == receive_from(linkRx, <<>>)
           r == response(lcall.addrs[lcall.idx], lcall.command, got.line)
       IN  /\ linkRx' = got.rest
           /\ linkLog' = Append(linkLog, [ev |-> "r", text |-> <<>>])
           /\ lastResp' = Some([address |-> lcall.addrs[lcall.idx],
                                 command |-> lcall.command,
                                 received |-> got.line, out |-> r])
           /\ IF r.kind = "ok"
              THEN LET a == AfterPayload(r.payload)
                   IN  /\ lpc' = a.lpc
                       /\ lcall' = [lcall EXCEPT !.idx = a.idx, !.result = a.result]
                       /\ lret' = a.ret
                       /\ lexc' = a.exc
              ELSE IF lcall.op = "response"
              THEN /\ lpc' = "raised"
                   /\ lexc' = Some(r)
                   /\ UNCHANGED <<lcall, lret>>
              ELSE /\ lpc' = OnProtocolError_query
                   /\ UNCHANGED <<lcall, lret, lexc>>
    /\ UNCHANGED linkPending
    /\ UNCHANGED exceptLink

\* The call returns to its caller, or its exception reaches the caller.
LinkReturn ==
    /\ lpc \in {"done", "raised"}
    /\ lpc' = "idle"
    /\ StartLinkCall(NoLinkCall)
    /\ UNCHANGED <<linkRx, linkPending>>
    /\ UNCHANGED exceptLink

\* A controller answers the oldest query it has not answered yet; the line
\* that arrives may be damaged.
ControllerReplies ==
    /\ linkPending # <<>>
    /\ \E bytes \in ReplyBytes(Head(linkPending).address, Head(linkPending).command) :
          linkRx' = linkRx \o bytes
    /\ linkPending' = Tail(linkPending)
    /\ UNCHANGED <<lpc, lcall, linkLog, lastResp, lret, lexc>>
    /\ UNCHANGED exceptLink

LinkAddresses == {Some(1), Some(12)}
StageAddresses == {<<Some(1)>>, <<Some(1), Some(2)>>}

InitLink == StageIdle /\ LinkIdle /\ M3Idle /\ CNCIdle /\ PIIdle /\ RunIdle

NextLink ==
    \/ \E a \in LinkAddresses, l \in BOOLEAN : CallQuery(a, TP, l)
    \/ \E a \in LinkAddresses : CallResponse(a, TP)
    \/ \E addrs \in StageAddresses : CallPosition(addrs)
    \/ \E a \in LinkAddresses : CallGetErrorAndState(a)
    \/ LinkSend
    \/ LinkResponse
    \/ LinkReturn
    \/ ControllerReplies

SpecLink == InitLink /\ [][NextLink]_vars

\* The Link used by queries that fetch their answer only: every query is
\* link.query(address, command) with lazy_res left False.
NextLinkSync ==
    \/ \E a \in LinkAddresses, c \in {TP, TS} : CallQuery(a, c, FALSE)
    \/ LinkSend
    \/ LinkResponse
    \/ LinkReturn
    \/ ControllerReplies

SpecLinkSync == InitLink /\ [][NextLinkSync]_vars


(***************************************************************************)
(* M3FS: framing of a response                                             *)
(***************************************************************************)

MaxPayload == 3     \* bytes between the delimiters of a response

\* serial.read(1) returns one byte, or nothing when the timeout expires.
Timeout == "timeout"
\* The bytes the device may send; "xFF" is a byte that is not ASCII.
M3Bytes == {"<", ">", CR, "0", "1", "8", " ", "V", "xFF"}
ReadOutcomes == M3Bytes \cup {Timeout}

\* The last read of __receive accepting whatever byte follows '>'.
receive_end_anybyte(b) == IF b = Timeout THEN "ProtocolError" ELSE "done"

\* __receive, first read: anything but one '<' raises ProtocolError().
receive_start(b) ==
    IF b = Timeout THEN "ProtocolError"
    ELSE IF b # "<" THEN "ProtocolError"
    ELSE "body"

\* __receive, the reads of the loop: '>' ends the payload, a carriage return
\* or no byte raises ProtocolError(), any other byte is appended to result.
receive_body(b) ==
    IF b = Timeout THEN "ProtocolError"
    ELSE IF b = ">" THEN "end"
    ELSE IF b = CR THEN "ProtocolError"
    ELSE "body"

\* __receive, last read: anything but one carriage return raises ProtocolError().
receive_end(b) ==
    IF b = Timeout THEN "ProtocolError"
    ELSE IF b # CR THEN "ProtocolError"
    ELSE "done"

\* ProtocolError(): query and response are None.
M3ProtocolError == [kind |-> "ProtocolError", query |-> None, response |-> None]

\* M3FS.__receive is entered.
CallReceive ==
    /\ m3pc = "idle"
    /\ m3pc' = "start"
    /\ m3read' = <<>> /\ m3result' = <<>> /\ m3ret' = None /\ m3exc' = None
    /\ m3call' = [op |-> "receive"]
    /\ m3dev' = None /\ m3sent' = <<>> /\ m3out' = None
    /\ UNCHANGED exceptM3

\* One serial.read(1) of __receive and what follows it up to the next read.
\* result.decode() raises UnicodeDecodeError on a byte that is not ASCII.
\* The byte is any byte, or the next one of m3dev (a timeout once m3dev is empty).
ReceiveRead(b) ==
    /\ m3pc \in {"start", "body", "end"}
    /\ IF m3dev = None
       THEN (m3pc = "body" /\ receive_body(b) = "body") => Len(m3result) < MaxPayload
       ELSE b = (IF The(m3dev) = <<>> THEN Timeout ELSE Head(The(m3dev)))
    /\ m3dev' = IF m3dev = None \/ The(m3dev) = <<>> THEN m3dev ELSE Some(Tail(The(m3dev)))
    /\ UNCHANGED <<m3call, m3sent, m3out>>
    /\ m3read' = Append(m3read, b)
    /\ LET to == CASE m3pc = "start" -> receive_start(b)
                   [] m3pc = "body" -> receive_body(b)
                   [] m3pc = "end" -> receive_end(b)
       IN  /\ m3result' = IF m3pc = "body" /\ to = "body"
                          THEN Append(m3result, b) ELSE m3result
           /\ IF to = "ProtocolError"
              THEN m3pc' = "raised" /\ m3exc' = Some(M3ProtocolError) /\ m3ret' = m3ret
              ELSE IF to = "done"
              THEN IF \E i \in 1..Len(m3result) : m3result[i] = "xFF"
                   THEN /\ m3pc' = "raised"
                        /\ m3exc' = Some([kind |-> "UnicodeDecodeError"])
                        /\ m3ret' = m3ret
                   ELSE /\ m3pc' = "done"
                        /\ m3ret' = Some(m3result)
                        /\ m3exc' = m3exc
              ELSE m3pc' = to /\ m3exc' = m3exc /\ m3ret' = m3ret
    /\ UNCHANGED exceptM3

\* __receive returns to its caller, or its exception reaches the caller.
ReceiveReturn ==
    /\ m3pc \in {"done", "raised"}
    /\ m3call.op = "receive"
    /\ m3pc' = "idle"
    /\ m3read' = <<>> /\ m3result' = <<>> /\ m3ret' = None /\ m3exc' = None
    /\ m3call' = [op |-> "none"]
    /\ UNCHANGED <<m3dev, m3sent, m3out>>
    /\ UNCHANGED exceptM3

RECURSIVE Strip(_)
\* str.strip() for the white space of the model: space, CR and LF.
Strip(text) ==
    IF text = <<>> THEN text
    ELSE IF Head(text) \in {" ", CR, LF} THEN Strip(Tail(text))
    ELSE IF text[Len(text)] \in {" ", CR, LF} THEN Strip(SubSeq(text, 1, Len(text) - 1))
    ELSE text

\* int(text): white space around the number is ignored, a sign may lead the
\* digits; None stands for ValueError.
PyInt(text) ==
    LET t == Strip(text)
        signed == t # <<>> /\ Head(t) \in {"+", "-"}
        digits == IF signed THEN Tail(t) ELSE t
    IN  IF ~IsDigits(digits) THEN None
        ELSE IF signed /\ Head(t) = "-" THEN Some(0 - DecValue(digits))
        ELSE Some(DecValue(digits))

\* M3FSCommand: READ_FIRM_VERSION, MOVE_TO_TARGET, VIEW_CLOSED_LOOP_STATUS_POS.
M3FSCommand == {1, 8, 10}

\* M3FS.__send: '<', the command ID as two digits ("{0:02d}"), the data if
\* any, '>' and CR.
M3Send(command, data) ==
    <<"<", Chars[(command \div 10) + 1], Chars[(command % 10) + 1]>>
        \o (IF data = None THEN <<>> ELSE <<" ">> \o The(data)) \o <<">", CR>>

\* M3FS.command after __receive has returned res: the checks of the command
\* ID and of the space that follows it.  The ProtocolError names the command.
command_check(command, res) ==
    LET error == [kind |-> "ProtocolError", query |-> [command |-> command],
                  response |-> Some(res)]
    IN  IF Len(res) < 2 THEN error
        ELSE IF PyInt(SubSeq(res, 1, 2)) = None THEN [kind |-> "ValueError"]
        ELSE IF The(PyInt(SubSeq(res, 1, 2))) # command THEN error
        ELSE IF Len(res) = 2 THEN [kind |-> "return", value |-> None]
        ELSE IF res[3] # " " THEN error
        ELSE [kind |-> "return", value |-> Some(SubSeq(res, 4, Len(res)))]

\* M3FS.command is called: __send writes the command, then __receive runs.
CallCommand(command, data) ==
    /\ m3pc = "idle"
    /\ m3pc' = "start"
    /\ m3read' = <<>> /\ m3result' = <<>> /\ m3ret' = None /\ m3exc' = None
    /\ m3call' = [op |-> "command", command |-> command]
    /\ m3dev' = None /\ m3out' = None
    /\ m3sent' = <<M3Send(command, data)>>
    /\ UNCHANGED exceptM3

SupportedVersion == <<"1", " ", "V", "E", "R", " ", "4", ".", "7", ".", "3", " ", "M", "3", "-", "F", "S">>

\* M3FS.__init__: serial.Serial() raises SerialException, or the port opens
\* and command(READ_FIRM_VERSION) is sent to a device that will answer reply.
CallInit(opens, reply) ==
    /\ m3pc = "idle"
    /\ m3read' = <<>> /\ m3result' = <<>> /\ m3ret' = None /\ m3exc' = None
    /\ m3call' = [op |-> "init", command |-> 1, reply |-> reply]
    /\ IF opens
       THEN /\ m3pc' = "start"
            /\ m3dev' = Some(reply)
            /\ m3sent' = <<M3Send(1, None)>>
            /\ m3out' = None
       ELSE /\ m3pc' = "ended"
            /\ m3dev' = None
            /\ m3sent' = <<>>
            /\ m3out' = Some([kind |-> "ConnectionFailure"])
    /\ UNCHANGED exceptM3

\* __receive has ended inside command: its exception goes through command,
\* its result is checked.  __init__ then turns a ProtocolError of command into
\* ConnectionFailure, lets any other exception through and raises
\* VersionNotSupported(res) unless res is the supported version.  The frame
\* of __receive is gone, the outcome keeps the text it had returned.
AfterReceive ==
    /\ m3pc \in {"done", "raised"}
    /\ m3call.op \in {"command", "init"}
    /\ LET out == IF m3pc = "raised" THEN The(m3exc)
                  ELSE command_check(m3call.command, The(m3ret))
           end == IF m3call.op # "init" THEN out
                  ELSE IF out.kind = "ProtocolError" THEN [kind |-> "ConnectionFailure"]
                  ELSE IF out.kind # "return" THEN out
                  ELSE IF out.value # Some(SupportedVersion)
                  THEN [kind |-> "VersionNotSupported", version |-> out.value]
                  ELSE [kind |-> "instance"]
       IN  m3out' = Some([end |-> end, res |-> m3ret, reads |-> m3read])
    /\ m3pc' = "ended"
    /\ m3read' = <<>> /\ m3result' = <<>> /\ m3ret' = None /\ m3exc' = None
    /\ UNCHANGED <<m3call, m3dev, m3sent>>
    /\ UNCHANGED exceptM3

\* command or __init__ returns or raises to its caller.
M3Return ==
    /\ m3pc = "ended"
    /\ m3pc' = "idle"
    /\ m3call' = [op |-> "none"]
    /\ m3dev' = None /\ m3sent' = <<>> /\ m3out' = None
    /\ UNCHANGED <<m3read, m3result, m3ret, m3exc>>
    /\ UNCHANGED exceptM3

InitM3 == StageIdle /\ LinkIdle /\ M3Idle /\ CNCIdle /\ PIIdle /\ RunIdle

NextM3 ==
    \/ CallReceive
    \/ \E c \in M3FSCommand, data \in {None, Some(<<"0">>)} : CallCommand(c, data)
    \/ \E b \in ReadOutcomes : ReceiveRead(b)
    \/ ReceiveReturn
    \/ AfterReceive
    \/ M3Return

SpecM3 == InitM3 /\ [][NextM3]_vars

\* The answers __init__ is run against: the answer of a supported device to
\* READ_FIRM_VERSION, what is left of it when the device stops sending, the
\* same with one byte changed, and an answer with no version.
InitReplies ==
    LET reply == <<"<", "0", "1", " ">> \o SupportedVersion \o <<">", CR>>
    IN  {SubSeq(reply, 1, n) : n \in 0..Len(reply)}
        \cup {[reply EXCEPT ![i] = b] :
                  i \in 1..Len(reply), b \in {"0", "V", " ", ">", CR, "xFF"}}
        \cup {<<"<", "0", "1", ">", CR>>}

NextM3Init ==
    \/ \E opens \in BOOLEAN, reply \in InitReplies : CallInit(opens, reply)
    \/ \E b \in ReadOutcomes \cup {SupportedVersion[i] : i \in 1..Len(SupportedVersion)} :
           ReceiveRead(b)
    \/ AfterReceive
    \/ M3Return

SpecM3Init == InitM3 /\ [][NextM3Init]_vars

(***************************************************************************)
(* CNCRouter: the status report of GRBL                                    *)
(***************************************************************************)

MaxFields == 2      \* fields after the status word of a status report
MaxOk == 2          \* 'ok' lines in a row before the answer to '?'
MaxQueries == 2     \* status queries of one read of the position
MaxLines == 2       \* lines received before the 'ok' that ends receive_lines

\* The texts of cncrouter.py and of the answers of GRBL.
Text ==
    [Idle |-> <<"I", "d", "l", "e">>,
     Run |-> <<"R", "u", "n">>,
     Hold |-> <<"H", "o", "l", "d">>,
     Door |-> <<"D", "o", "o", "r">>,
     Home |-> <<"H", "o", "m", "e">>,
     Alarm |-> <<"A", "l", "a", "r", "m">>,
     Check |-> <<"C", "h", "e", "c", "k">>,
     Jog |-> <<"J", "o", "g">>,
     MPos |-> <<"M", "P", "o", "s">>,
     WCO |-> <<"W", "C", "O">>,
     FS |-> <<"F", "S">>,
     Pn |-> <<"P", "n">>,
     ok |-> <<"o", "k">>,
     ALARM1 |-> <<"A", "L", "A", "R", "M", ":", "1">>,
     ALARM2 |-> <<"A", "L", "A", "R", "M", ":", "2">>,
     error1 |-> <<"e", "r", "r", "o", "r", ":", "1">>,
     Grbl |-> <<"G", "r", "b", "l">>,
     ForHelp |-> <<"[", "'", "$", "'", " ", "f", "o", "r", " ", "h", "e", "l", "p", "]">>,
     MsgUnlock |-> <<"[", "M", "S", "G", ":", "'", "$", "H", "'", "|", "'", "$", "X", "'", " ", "t", "o", " ", "u", "n", "l", "o", "c", "k", "]">>,
     MsgUnlocked |-> <<"[", "M", "S", "G", ":", "C", "a", "u", "t", "i", "o", "n", ":", " ", "U", "n", "l", "o", "c", "k", "e", "d", "]">>,
     MsgReset |-> <<"[", "M", "S", "G", ":", "R", "e", "s", "e", "t", " ", "t", "o", " ", "c", "o", "n", "t", "i", "n", "u", "e", "]">>]

\* The values of CNCStatus.
CNCStatus == {Text.Idle, Text.Run, Text.Hold, Text.Door, Text.Home, Text.Alarm, Text.Check}

\* str.startswith and str.endswith
StartsWith(text, p) == Len(p) <= Len(text) /\ SubSeq(text, 1, Len(p)) = p
EndsWith(text, p) ==
    Len(p) <= Len(text) /\ SubSeq(text, Len(text) - Len(p) + 1, Len(text)) = p

\* str.split(sep, 1): the text itself, or what is before and after the first sep.
Split1(text, sep) ==
    IF \A i \in 1..Len(text) : text[i] # sep THEN <<text>>
    ELSE LET i == CHOOSE j \in 1..Len(text) :
                      text[j] = sep /\ \A k \in 1..(j - 1) : text[k] # sep
         IN  <<SubSeq(text, 1, i - 1), SubSeq(text, i + 1, Len(text))>>

RECURSIVE Split(_, _)
\* str.split(sep)
Split(text, sep) ==
    IF Len(Split1(text, sep)) = 1 THEN <<text>>
    ELSE <<Split1(text, sep)[1]>> \o Split(Split1(text, sep)[2], sep)

\* The value of an element of a report never split at its commas.
status_value_nosplit(kv) ==
    IF Len(kv) = 1 THEN [kind |-> "none"] ELSE [kind |-> "str", text |-> kv[2]]

\* The value of an element split at its first ':': absent without ':', the
\* list of the items between commas when it has a comma, else the text.
status_value(kv) ==
    IF Len(kv) = 1 THEN [kind |-> "none"]
    ELSE IF \E i \in 1..Len(kv[2]) : kv[2][i] = ","
    THEN [kind |-> "list", items |-> Split(kv[2], ",")]
    ELSE [kind |-> "str", text |-> kv[2]]

\* get_current_status from "Discard any unwanted format" on: None for a line
\* that is not between chevrons, ValueError when the first element is not a
\* value of CNCStatus, else the status and the dictionary `others` (a later
\* element replaces an earlier one of the same key).
parse_status(status) ==
    IF ~(StartsWith(status, <<"<">>) /\ EndsWith(status, <<">">>))
    THEN [kind |-> "None"]
    ELSE LET elements == Split(SubSeq(status, 2, Len(status) - 1), "|")
             pairs == [i \in 1..(Len(elements) - 1) |-> Split1(elements[i + 1], ":")]
             last(k) == CHOOSE i \in 1..Len(pairs) :
                           /\ pairs[i][1] = k
                           /\ \A j \in (i + 1)..Len(pairs) : pairs[j][1] # k
         IN  IF elements[1] \notin CNCStatus THEN [kind |-> "ValueError"]
             ELSE [kind |-> "status", cncstatus |-> elements[1],
                   others |-> [k \in {pairs[i][1] : i \in 1..Len(pairs)} |->
                                  status_value(pairs[last(k)])]]

\* The end of the position getter on the dictionary extra_dict:
\* Vector(MPos) - Vector(WCO), which needs both, of the same dimension.
\* tuple(float(x) for x in value) takes the items of a list and the characters
\* of a text; float raises ValueError on what is not a number (the numbers of
\* the model are digits), and an absent value cannot be iterated (TypeError).
mpos_minus_wco(others) ==
    LET texts(value) == IF value.kind = "list" THEN value.items
                        ELSE [i \in 1..Len(value.text) |-> <<value.text[i]>>]
        isfloats(value) == \A i \in 1..Len(texts(value)) : IsDigits(texts(value)[i])
        floats(value) == [i \in 1..Len(texts(value)) |-> DecValue(texts(value)[i])]
    IN  IF Text.MPos \notin DOMAIN others \/ Text.WCO \notin DOMAIN others
        THEN [kind |-> "KeyError"]
        ELSE IF others[Text.MPos].kind = "none" \/ others[Text.WCO].kind = "none"
        THEN [kind |-> "TypeError"]
        ELSE IF ~isfloats(others[Text.MPos]) \/ ~isfloats(others[Text.WCO])
        THEN [kind |-> "ValueError"]
        ELSE IF Len(floats(others[Text.MPos])) # Len(floats(others[Text.WCO]))
        THEN [kind |-> "ValueError"]
        ELSE [kind |-> "return",
              value |-> [i \in 1..Len(floats(others[Text.MPos])) |->
                            floats(others[Text.MPos])[i] - floats(others[Text.WCO])[i]]]

\* What a device puts in its reports.  words: two values of CNCStatus and one
\* that is not.  lists: the elements after the word, each a key and the items
\* of its value (no item: the element has no ':').
Reports ==
    LET fields == {[key |-> Text.MPos, items |-> <<<<"2">>, <<"1">>>>],
                   [key |-> Text.MPos, items |-> <<<<"3">>>>],
                   [key |-> Text.WCO, items |-> <<<<"1">>, <<"0">>>>],
                   [key |-> Text.WCO, items |-> <<<<"1">>>>],
                   [key |-> Text.FS, items |-> <<<<"0">>>>],
                   [key |-> Text.Pn, items |-> <<>>]}
    IN  [words |-> {Text.Idle, Text.Run, Text.Jog},
         lists |-> UNION {[1..n -> fields] : n \in 0..MaxFields}]

\* The text of the report of a status word and elements.
ReportText(word, fields) ==
    LET RECURSIVE Join(_, _)
        Join(items, sep) == IF items = <<>> THEN <<>>
                            ELSE IF Len(items) = 1 THEN items[1]
                            ELSE items[1] \o <<sep>> \o Join(Tail(items), sep)
        FieldText(f) == f.key \o (IF f.items = <<>> THEN <<>>
                                  ELSE <<":">> \o Join(f.items, ","))
    IN  <<"<">> \o Join(<<word>> \o [i \in 1..Len(fields) |-> FieldText(fields[i])], "|")
                \o <<">">>

\* What receive() may return in answer to '?': a report, nothing, 'ok', an
\* alarm or an error, a message, a report cut short.
CNCLines ==
    {ReportText(w, fs) : w \in Reports.words, fs \in Reports.lists}
    \cup {<<>>, Text.ok, Text.ALARM1, Text.ALARM2, Text.error1, Text.MsgReset,
          <<"<">> \o Text.Idle}

\* get_current_status discarding one 'ok' line only.
gcs_step_one_ok(at, status, line) ==
    IF at = "alarm"
    THEN [at |-> "ended", write |-> FALSE,
          out |-> Some([kind |-> "CNCError", message |-> line, cncstatus |-> Text.Alarm])]
    ELSE IF at = "first" /\ line = <<>> THEN [at |-> "retry", write |-> TRUE, out |-> None]
    ELSE IF line = Text.ok /\ at # "ok" THEN [at |-> "ok", write |-> FALSE, out |-> None]
    ELSE IF StartsWith(line, Text.ALARM1) THEN [at |-> "alarm", write |-> FALSE, out |-> None]
    ELSE [at |-> "ended", write |-> FALSE, out |-> Some(parse_status(line))]

\* get_current_status retrying after every empty read.
gcs_step_retry_always(at, status, line) ==
    IF at = "alarm"
    THEN [at |-> "ended", write |-> FALSE,
          out |-> Some([kind |-> "CNCError", message |-> line, cncstatus |-> Text.Alarm])]
    ELSE IF line = <<>> THEN [at |-> "retry", write |-> TRUE, out |-> None]
    ELSE IF line = Text.ok THEN [at |-> "ok", write |-> FALSE, out |-> None]
    ELSE IF StartsWith(line, Text.ALARM1) THEN [at |-> "alarm", write |-> FALSE, out |-> None]
    ELSE [at |-> "ended", write |-> FALSE, out |-> Some(parse_status(line))]

\* get_current_status raising the alarm with the alarm line as its message.
gcs_step_alarm_line(at, status, line) ==
    IF at = "alarm"
    THEN [at |-> "ended", write |-> FALSE,
          out |-> Some([kind |-> "CNCError", message |-> status, cncstatus |-> Text.Alarm])]
    ELSE IF at = "first" /\ line = <<>> THEN [at |-> "retry", write |-> TRUE, out |-> None]
    ELSE IF line = Text.ok THEN [at |-> "ok", write |-> FALSE, out |-> None]
    ELSE IF StartsWith(line, Text.ALARM1) THEN [at |-> "alarm", write |-> FALSE, out |-> None]
    ELSE [at |-> "ended", write |-> FALSE, out |-> Some(parse_status(line))]

\* get_current_status after a receive() that returned line, `at` telling which
\* receive it was: the next receive and whether '?' is written again, or the
\* outcome of the call.  Only the first read is retried when empty; 'ok' is
\* skipped; after 'ALARM:1' the next line is read and raised in a CNCError.
gcs_step(at, status, line) ==
    IF at = "alarm"
    THEN [at |-> "ended", write |-> FALSE,
          out |-> Some([kind |-> "CNCError", message |-> line, cncstatus |-> Text.Alarm])]
    ELSE IF at = "first" /\ line = <<>> THEN [at |-> "retry", write |-> TRUE, out |-> None]
    ELSE IF line = Text.ok THEN [at |-> "ok", write |-> FALSE, out |-> None]
    ELSE IF StartsWith(line, Text.ALARM1) THEN [at |-> "alarm", write |-> FALSE, out |-> None]
    ELSE [at |-> "ended", write |-> FALSE, out |-> Some(parse_status(line))]

\* The position getter leaving its loop after the first status.
needs_another_never(out) == FALSE

\* The loop of the position getter: again while extra_dict has no key WCO
\* (extra_dict is empty when get_current_status returned None).
needs_another(out) ==
    \/ out.kind = "None"
    \/ out.kind = "status" /\ Text.WCO \notin DOMAIN out.others

\* get_current_status or the position getter is called: '?' is written.
CallStatus(op) ==
    /\ cncpc = "idle"
    /\ cncpc' = "first"
    /\ cnccall' = [op |-> op, n |-> 1, oks |-> 0, last |-> <<>>]
    /\ cncStatus' = <<>>
    /\ cncLog' = <<[e |-> "w", text |-> <<"?">>]>>
    /\ cncOut' = None
    /\ UNCHANGED cncRecv
    /\ UNCHANGED exceptCNC

\* One receive() of get_current_status returns line, and the call goes on up
\* to its next receive(); in the position getter the status returned is looked
\* at, and either get_current_status is called again or the position computed.
CNCReceiveLine(line) ==
    /\ cncpc \in {"first", "retry", "ok", "alarm"}
    /\ (line = Text.ok /\ cncpc # "alarm") => cnccall.oks < MaxOk
    /\ LET st == gcs_step(cncpc, cncStatus, line)
           again == cnccall.op = "position" /\ st.out # None /\ needs_another(The(st.out))
           out == IF st.out = None THEN None
                  ELSE IF cnccall.op = "position" /\ The(st.out).kind = "status"
                  THEN Some(mpos_minus_wco(The(st.out).others))
                  ELSE IF cnccall.op = "position" /\ The(st.out).kind = "None"
                  THEN Some([kind |-> "KeyError"])
                  ELSE st.out
           write == <<[e |-> "w", text |-> <<"?">>]>>
       IN  /\ again => cnccall.n < MaxQueries
           /\ cncStatus' = IF again THEN <<>> ELSE IF cncpc = "alarm" THEN cncStatus ELSE line
           /\ cncLog' = IF again THEN write
                        ELSE cncLog \o <<[e |-> "r", empty |-> line = <<>>]>>
                                \o (IF st.write THEN write ELSE <<>>)
           /\ cncpc' = IF again THEN "first" ELSE st.at
           /\ cnccall' = [cnccall EXCEPT
                             !.n = IF again THEN @ + 1 ELSE @,
                             !.oks = IF again THEN 0 ELSE IF line = Text.ok THEN @ + 1 ELSE @,
                             !.last = IF again THEN <<>> ELSE line]
           /\ cncOut' = IF again THEN None ELSE out
    /\ UNCHANGED cncRecv
    /\ UNCHANGED exceptCNC

\* The running operation returns or raises to its caller.
CNCReturn ==
    /\ cncpc = "ended"
    /\ cncpc' = "idle"
    /\ cnccall' = [op |-> "none"]
    /\ cncStatus' = <<>> /\ cncLog' = <<>> /\ cncOut' = None
    /\ UNCHANGED cncRecv
    /\ UNCHANGED exceptCNC

\* Every part of the model at rest.
InitIdle == StageIdle /\ LinkIdle /\ M3Idle /\ CNCIdle /\ PIIdle /\ RunIdle

NextCNC ==
    \/ \E op \in {"get_current_status", "position"} : CallStatus(op)
    \/ \E line \in CNCLines : CNCReceiveLine(line)
    \/ CNCReturn

SpecCNC == InitIdle /\ [][NextCNC]_vars

(***************************************************************************)
(* CNCRouter: construction                                                 *)
(***************************************************************************)

\* The lines GRBL may send after a reset or a command: its prompt, the
\* messages about the lock, a prompt cut short, an error.
ResetLines ==
    LET lines == {Text.Grbl \o <<" ", "1", ".", "1", "h", " ">> \o Text.ForHelp,
                  Text.MsgUnlock, Text.MsgUnlocked, Text.Grbl, Text.error1}
    IN  UNION {[1..n -> lines] : n \in 0..MaxLines}

\* CNCRouter.__init__: serial.Serial() raises SerialException, which becomes
\* ConnectionFailure, or the port opens and reset_grbl sends CTRL+X ("CAN")
\* and an empty line, then waits in receive_lines.
CallCNCInit(opens) ==
    /\ cncpc = "idle"
    /\ cnccall' = [op |-> "init", ok |-> FALSE, received |-> <<>>]
    /\ cncStatus' = <<>>
    /\ IF opens
       THEN /\ cncpc' = "prompt"
            /\ cncLog' = <<[e |-> "w", text |-> <<"CAN">>], [e |-> "w", text |-> <<LF>>]>>
            /\ cncOut' = None
       ELSE /\ cncpc' = "ended"
            /\ cncLog' = <<>>
            /\ cncOut' = Some([kind |-> "ConnectionFailure"])
    /\ UNCHANGED cncRecv
    /\ UNCHANGED exceptCNC

\* reset_grbl from the return of a receive_lines() or receive() on: lines are
\* the lines received (one line for receive()).  After the reset the first
\* line is tested (IndexError when there is none); reset_grbl returns False
\* on a wrong prompt, and __init__ does not look at what reset_grbl returns.
\* Else '$X' is sent when the unlock message was received, then the status
\* report mask '$10=3', whose answer is read and returned by send_receive.
ResetStep(lines) ==
    /\ cncpc \in {"prompt", "unlock", "setting"}
    /\ cncpc = "setting" => Len(lines) = 1
    /\ LET prompt == /\ StartsWith(lines[1], Text.Grbl)
                     /\ EndsWith(lines[1], Text.ForHelp)
           locked == \E i \in 1..Len(lines) : lines[i] = Text.MsgUnlock
           unlocked == \E i \in 1..Len(lines) : lines[i] = Text.MsgUnlocked
           write(text) == <<[e |-> "w", text |-> text \o <<LF>>]>>
           setting == write(<<"$", "1", "0", "=", "3">>)
       IN  /\ cncpc' = IF cncpc = "setting" \/ (cncpc = "prompt" /\ (lines = <<>> \/ ~prompt))
                       THEN "ended"
                       ELSE IF cncpc = "prompt" /\ locked THEN "unlock" ELSE "setting"
           /\ cncLog' = IF cncpc' = "unlock" THEN cncLog \o write(<<"$", "X">>)
                        ELSE IF cncpc' = "setting" THEN cncLog \o setting
                        ELSE cncLog
           /\ cnccall' = [cnccall EXCEPT
                             !.received = Append(@, lines),
                             !.ok = IF cncpc = "prompt" THEN lines # <<>> /\ prompt
                                    ELSE IF cncpc = "unlock" THEN unlocked ELSE @]
           /\ cncOut' = IF cncpc' # "ended" THEN None
                        ELSE IF cncpc = "prompt" /\ lines = <<>>
                        THEN Some([kind |-> "IndexError"])
                        ELSE Some([kind |-> "instance"])
    /\ UNCHANGED <<cncStatus, cncRecv>>
    /\ UNCHANGED exceptCNC

NextCNCInit ==
    \/ \E opens \in BOOLEAN : CallCNCInit(opens)
    \/ \E lines \in ResetLines : ResetStep(lines)
    \/ CNCReturn

SpecCNCInit == InitIdle /\ [][NextCNCInit]_vars


(***************************************************************************)
(* CNCRouter: receive, byte by byte                                        *)
(***************************************************************************)

MaxBytes == 3       \* bytes the device sends during one receive()
Tries == 10         \* tries = 10

\* The count of tries decreasing by two at each empty read.
tries_after_two(tries, part) == IF part = <<>> THEN tries - 2 ELSE tries

\* "Give a chance to get out of this": an empty read costs one try.
tries_after(tries, part) == IF part = <<>> THEN tries - 1 ELSE tries

\* CNCRouter.receive is called.  `empties` counts the reads of one byte that
\* returned nothing.
CallRecv ==
    /\ cncRecv.pc = "idle"
    /\ cncRecv' = [pc |-> "first", response |-> <<>>, tries |-> Tries,
                   empties |-> 0, out |-> None]
    /\ UNCHANGED <<cncpc, cnccall, cncStatus, cncLog, cncOut>>
    /\ UNCHANGED exceptCNC

\* One serial.read of receive returns the bytes part (at most 2 for the first
\* read, at most 1 for the others; none when the timeout expires), and receive
\* goes on up to its next read or its return: '' when no try is left, the
\* response without its CR-LF once it ends with CR-LF (decode raises
\* UnicodeDecodeError on a byte that is not ASCII).
RecvRead(part) ==
    /\ cncRecv.pc \in {"first", "loop"}
    /\ Len(part) <= (IF cncRecv.pc = "first" THEN 2 ELSE 1)
    /\ Len(cncRecv.response) + Len(part) <= MaxBytes
    /\ LET resp == cncRecv.response \o part
           tries == IF cncRecv.pc = "first" THEN cncRecv.tries
                    ELSE tries_after(cncRecv.tries, part)
           line == SubSeq(resp, 1, Len(resp) - 2)
           out == IF cncRecv.pc = "loop" /\ tries = 0
                  THEN Some([kind |-> "return", value |-> <<>>])
                  ELSE IF ~EndsWith(resp, <<CR, LF>>) THEN None
                  ELSE IF \E i \in 1..Len(line) : line[i] = "xFF"
                  THEN Some([kind |-> "UnicodeDecodeError"])
                  ELSE Some([kind |-> "return", value |-> line])
       IN  cncRecv' = [pc |-> IF out = None THEN "loop" ELSE "done",
                       response |-> resp, tries |-> tries,
                       empties |-> IF cncRecv.pc = "loop" /\ part = <<>>
                                   THEN cncRecv.empties + 1 ELSE cncRecv.empties,
                       out |-> out]
    /\ UNCHANGED <<cncpc, cnccall, cncStatus, cncLog, cncOut>>
    /\ UNCHANGED exceptCNC

\* receive returns or raises to its caller.
RecvReturn ==
    /\ cncRecv.pc = "done"
    /\ cncRecv' = [pc |-> "idle"]
    /\ UNCHANGED <<cncpc, cnccall, cncStatus, cncLog, cncOut>>
    /\ UNCHANGED exceptCNC

\* What one serial.read may return: up to two bytes of CR, LF, a letter and a
\* byte that is not ASCII.
ReadParts == UNION {[1..n -> {CR, LF, "o", "xFF"}] : n \in 0..2}

NextCNCRecv ==
    \/ CallRecv
    \/ \E part \in ReadParts : RecvRead(part)
    \/ RecvReturn

\* The port is opened with timeout=1: every serial.read returns, and the
\* device sends at most MaxBytes bytes.
SpecCNCRecv ==
    InitIdle /\ [][NextCNCRecv]_vars /\ WF_vars(\E part \in ReadParts : RecvRead(part))


(***************************************************************************)
(* PI: query                                                               *)
(***************************************************************************)

\* The check of a reply that does not look at the address of the sender.
pi_reply_anysender(address, line) ==
    LET text == Strip(line)
        head == Split1(text, " ")
        resp == IF Len(head) = 1 THEN head ELSE <<head[1]>> \o Split1(head[2], " ")
    IN  IF Len(resp) # 3 THEN [kind |-> "AssertionError"]
        ELSE IF PyInt(resp[1]) = None THEN [kind |-> "ValueError"]
        ELSE IF PyInt(resp[1]) # Some(0) THEN [kind |-> "AssertionError"]
        ELSE [kind |-> "return", value |-> <<Strip(resp[3])>>]

\* The loop of PI.query on the line returned by readline(): the line is
\* stripped and split at its first two spaces; the assert wants three parts,
\* int(response[0]) == 0 and int(response[1]) == address (int raises
\* ValueError on a part that is not a number; address is None or Some(n)).
\* The payload is stripped, so it never ends with ' \n' and the loop ends
\* with this line: the list of the one payload is returned.
pi_reply(address, line) ==
    LET text == Strip(line)
        head == Split1(text, " ")
        resp == IF Len(head) = 1 THEN head ELSE <<head[1]>> \o Split1(head[2], " ")
    IN  IF Len(resp) # 3 THEN [kind |-> "AssertionError"]
        ELSE IF PyInt(resp[1]) = None THEN [kind |-> "ValueError"]
        ELSE IF PyInt(resp[1]) # Some(0) THEN [kind |-> "AssertionError"]
        ELSE IF PyInt(resp[2]) = None THEN [kind |-> "ValueError"]
        ELSE IF PyInt(resp[2]) # address THEN [kind |-> "AssertionError"]
        ELSE [kind |-> "return", value |-> <<Strip(resp[3])>>]

\* The replies of a device: up to two parts that are numbers or not, or two
\* such parts and a payload, with a space between the parts.
PIReplies ==
    LET parts == {<<"0">>, <<"0", "0">>, <<"1">>, <<"0", "1">>, <<"2">>, <<"x">>}
        payloads == {<<"5">>, <<"a", " ", "b">>}
    IN  UNION {[1..n -> parts] : n \in 0..2}
        \cup {<<a, b, c>> : a \in parts, b \in parts, c \in payloads}

\* PI.query(command, address) is called (no args): the command is written,
\* unless the write raises SerialException, which becomes ConnectionFailure.
CallPIQuery(command, address, written) ==
    /\ pipc = "idle"
    /\ picall' = [op |-> "query", command |-> command, address |-> address,
                  reply |-> <<>>]
    /\ IF written
       THEN /\ pipc' = "readline"
            /\ piLog' = <<(IF address = None THEN <<>> ELSE ToDec(The(address)) \o <<" ">>)
                              \o command \o <<"?", LF>>>>
            /\ piOut' = None
       ELSE /\ pipc' = "ended"
            /\ piLog' = <<>>
            /\ piOut' = Some([kind |-> "ConnectionFailure"])
    /\ UNCHANGED exceptPI

\* readline() returns the parts of reply with a space between them and a line
\* feed at the end, and the query checks the line and ends.
PIReadline(reply) ==
    /\ pipc = "readline"
    /\ LET RECURSIVE Line(_)
           Line(parts) == IF parts = <<>> THEN <<LF>>
                          ELSE IF Len(parts) = 1 THEN parts[1] \o <<LF>>
                          ELSE parts[1] \o <<" ">> \o Line(Tail(parts))
       IN  piOut' = Some(pi_reply(picall.address, Line(reply)))
    /\ pipc' = "ended"
    /\ picall' = [picall EXCEPT !.reply = reply]
    /\ UNCHANGED piLog
    /\ UNCHANGED exceptPI

\* The query returns or raises to its caller.
PIReturn ==
    /\ pipc = "ended"
    /\ pipc' = "idle"
    /\ picall' = [op |-> "none"]
    /\ piLog' = <<>> /\ piOut' = None
    /\ UNCHANGED exceptPI

NextPI ==
    \/ \E command \in {<<"P", "O", "S">>, <<"*", "I", "D", "N">>},
          address \in {None, Some(1), Some(2)}, written \in BOOLEAN :
           CallPIQuery(command, address, written)
    \/ \E reply \in PIReplies : PIReadline(reply)
    \/ PIReturn

SpecPI == InitIdle /\ [][NextPI]_vars


(***************************************************************************)
(* PI: query on a device that answers with several lines                   *)
(***************************************************************************)

MaxPILines == 3

\* The whole loop of PI.query on the lines the transport holds: each line
\* is checked and its payload appended; the loop goes on only when the
\* payload, which the code has stripped, ends with ' \n'.  A readline() on a
\* transport with no line left times out and returns the empty text.
\* The result is how the query ends and how many lines it has read.
pi_query(address, lines) ==
    LET RECURSIVE loop(_, _, _)
        loop(rest, responses, read) ==
            LET line == IF rest = <<>> THEN <<>> ELSE Head(rest)
                one == pi_reply(address, line)
            IN  IF one.kind # "return" THEN [out |-> one, read |-> read + 1]
                ELSE IF EndsWith(one.value[1], <<" ", LF>>) /\ rest # <<>>
                     THEN loop(Tail(rest), responses \o one.value, read + 1)
                     ELSE [out |-> [kind |-> "return", value |-> responses \o one.value],
                           read |-> read + 1]
    IN  loop(lines, <<>>, 0)

\* The lines a device at address 1 or 2 sends: continued lines (the payload
\* is followed by a space before the line feed) and lines that are not.
PILines ==
    {<<"0", " ", "1", " ", "5", " ", LF>>, <<"0", " ", "1", " ", "6", " ", LF>>,
     <<"0", " ", "1", " ", "7", LF>>, <<"0", " ", "2", " ", "7", LF>>}

\* The query runs its loop on the lines the device has sent.
PIReadlines(lines) ==
    /\ pipc = "readline"
    /\ LET res == pi_query(picall.address, lines)
       IN  /\ piOut' = Some(res.out)
           /\ picall' = [op |-> "query", command |-> picall.command,
                         address |-> picall.address, reply |-> lines,
                         read |-> res.read]
    /\ pipc' = "ended"
    /\ UNCHANGED piLog
    /\ UNCHANGED exceptPI

NextPILines ==
    \/ \E command \in {<<"P", "O", "S">>, <<"*", "I", "D", "N">>},
          address \in {None, Some(1), Some(2)}, written \in BOOLEAN :
           CallPIQuery(command, address, written)
    \/ \E n \in 1..MaxPILines : \E lines \in [1..n -> PILines] : PIReadlines(lines)
    \/ PIReturn

SpecPILines == InitIdle /\ [][NextPILines]_vars


(***************************************************************************)
(* Tic: go_home                                                            *)
(***************************************************************************)

MaxHomePolls == 4

\* The values of MISC_FLAGS the controller answers: bit 4 is homing active.
MiscFlags == {0, 1, 16, 17, 239, 255}

\* The body of the loop of go_home that does not send exit-safe-start.
go_home_poll_quiet(flags) ==
    <<[cmd |-> "GET_VARIABLE", offset |-> 1, value |-> flags]>>

\* One test of the loop of go_home, and its body when the test holds:
\* MISC_FLAGS is read, and with bit 4 set exit_safe_start() is sent.
go_home_poll(flags) ==
    <<[cmd |-> "GET_VARIABLE", offset |-> 1, value |-> flags]>>
        \o (IF BitSet(flags, 4) THEN <<[cmd |-> "EXIT_SAFE_START"]>> ELSE <<>>)

\* The operation returns None to its caller.
RunReturn ==
    /\ runpc = "ended"
    /\ runpc' = "idle" /\ runcall' = [op |-> "none"]
    /\ runLog' = <<>> /\ runOut' = None
    /\ UNCHANGED exceptRun

\* go_home(direction, wait) is called: exit_safe_start(), then
\* write_7(GO_HOME, direction); without wait it ends there.
CallGoHome(direction, wait) ==
    /\ runpc = "idle"
    /\ runcall' = [op |-> "go_home", direction |-> direction, wait |-> wait]
    /\ runLog' = <<[cmd |-> "EXIT_SAFE_START"], [cmd |-> "GO_HOME", data |-> direction]>>
    /\ IF wait THEN runpc' = "poll" /\ runOut' = None
               ELSE runpc' = "ended" /\ runOut' = Some([kind |-> "return"])
    /\ UNCHANGED exceptRun

\* The loop of go_home reads MISC_FLAGS: it goes on while bit 4 is set.
GoHomePoll(flags) ==
    /\ runpc = "poll" /\ runcall.op = "go_home"
    /\ Len(SelectSeq(runLog, LAMBDA e : e.cmd = "GET_VARIABLE")) < MaxHomePolls
    /\ runLog' = runLog \o go_home_poll(flags)
    /\ IF BitSet(flags, 4) THEN runpc' = "poll" /\ runOut' = None
                           ELSE runpc' = "ended" /\ runOut' = Some([kind |-> "return"])
    /\ UNCHANGED runcall
    /\ UNCHANGED exceptRun

NextTicHome ==
    \/ \E direction \in {0, 1}, wait \in BOOLEAN : CallGoHome(direction, wait)
    \/ \E flags \in MiscFlags : GoHomePoll(flags)
    \/ RunReturn

SpecTicHome == InitIdle /\ [][NextTicHome]_vars


(***************************************************************************)
(* Corvus: construction                                                    *)
(***************************************************************************)

MaxReply == 5

\* str.split() of Python: the words between runs of white space.
split_ws(text) ==
    LET RECURSIVE go(_, _, _)
        go(rest, word, acc) ==
            LET done == IF word = <<>> THEN acc ELSE Append(acc, word)
            IN  IF rest = <<>> THEN done
                ELSE IF Head(rest) \in {" ", CR, LF}
                     THEN go(Tail(rest), <<>>, done)
                     ELSE go(Tail(rest), Append(word, Head(rest)), acc)
    IN  go(text, <<>>, <<>>)

\* for x in res: assert int(x) == unit, with unit 1: the first word that is
\* not a number raises ValueError, the first number that is not 1 fails the
\* assert; no word at all passes.
units_checked(res) ==
    LET RECURSIVE go(_)
        go(rest) ==
            IF rest = <<>> THEN "ok"
            ELSE IF PyInt(Head(rest)) = None THEN "ValueError"
            ELSE IF PyInt(Head(rest)) # Some(1) THEN "AssertionError"
            ELSE go(Tail(rest))
    IN  go(res)

\* What receive() returns for the reply to '-1 getunit': the text before CR-LF.
UnitReplies == UNION {[1..n -> {"1", "0", " ", "x"}] : n \in 0..MaxReply}

\* Corvus(dev) is called: the port opens or SerialException becomes
\* ConnectionFailure; __init sends '3 setdim', '1 -1 setunit' and
\* '-1 getunit', and waits for the reply.
CallCorvusInit(opens) ==
    /\ runpc = "idle"
    /\ runcall' = [op |-> "Corvus"]
    /\ IF opens
       THEN /\ runpc' = "receive"
            /\ runLog' = <<"3 setdim ", "1 -1 setunit ", "-1 getunit ">>
            /\ runOut' = None
       ELSE /\ runpc' = "ended"
            /\ runLog' = <<>>
            /\ runOut' = Some([kind |-> "ConnectionFailure"])
    /\ UNCHANGED exceptRun

\* receive() returns the reply: its words are checked, and when the check
\* passes enable_joystick() sends '1 j' and the constructor returns.
CorvusReceive(reply) ==
    /\ runpc = "receive" /\ runcall.op = "Corvus"
    /\ runcall' = [op |-> "Corvus", reply |-> reply]
    /\ LET checked == units_checked(split_ws(reply))
       IN  IF checked = "ok"
           THEN /\ runLog' = Append(runLog, "1 j ")
                /\ runOut' = Some([kind |-> "instance"])
           ELSE /\ runLog' = runLog
                /\ runOut' = Some([kind |-> checked])
    /\ runpc' = "ended"
    /\ UNCHANGED exceptRun

NextCorvusInit ==
    \/ \E opens \in BOOLEAN : CallCorvusInit(opens)
    \/ \E reply \in UnitReplies : CorvusReceive(reply)
    \/ RunReturn

SpecCorvusInit == InitIdle /\ [][NextCorvusInit]_vars


(***************************************************************************)
(* The decoding of the values a device reports                             *)
(***************************************************************************)

\* class PIError: the numbers of its members.
PIError ==
    (0 - 67)..(0 - 28) \cup 0..100 \cup 200..221 \cup 230..233 \cup
    301..311 \cup {333} \cup 400..406 \cup 500..509 \cup 530..533 \cup
    536..537 \cup 539..540 \cup 542..549 \cup 551..559 \cup 601..604 \cup
    606..609 \cup 650..659 \cup {700} \cup {710} \cup 715..720 \cup
    {725} \cup 731..733 \cup 1000..1013 \cup {1015} \cup 1024..1025 \cup
    {1028} \cup 1063..1066 \cup 1071..1073 \cup {1090} \cup {2000} \cup
    {2100} \cup 4000..4009 \cup 5000..5006 \cup 5100..5104 \cup {5200} \cup
    5300..5301 \cup 6000..6005

\* PIError(int(response[0])) of PI.error that takes a number that is no
\* member for no error at all.
pi_error_default(payload) ==
    IF PyInt(payload) = None THEN [kind |-> "ValueError"]
    ELSE IF The(PyInt(payload)) \notin PIError THEN [kind |-> "PIError", value |-> 0]
    ELSE [kind |-> "PIError", value |-> The(PyInt(payload))]

\* PIError(int(response[0])) of PI.error, on the payload of the ERR query:
\* int raises ValueError on a text that is no number, PIError on a number
\* that is no member.
pi_error(payload) ==
    IF PyInt(payload) = None THEN [kind |-> "ValueError"]
    ELSE IF The(PyInt(payload)) \notin PIError THEN [kind |-> "ValueError"]
    ELSE [kind |-> "PIError", value |-> The(PyInt(payload))]

\* What the devices report: payloads of the TS query of SMC100 (four digits
\* of faults and two of state), status lines of GRBL, payloads of the ERR
\* query of PI.
Wire ==
    [TS |-> {f \o v : f \in {<<"0", "0", "0", "0">>,
                         <<"0", "0", "0", "1">>,
                         <<"0", "2", "0", "0">>,
                         <<"0", "3", "F", "F">>,
                         <<"0", "4", "0", "0">>,
                         <<"8", "0", "0", "0">>,
                         <<"0", "0", "G", "0">>,
                         <<"0", "0", "2", "1">>,
                         <<"F", "F", "F", "F">>,
                         <<"0", "1", "0", "0">>},
                      v \in {<<"0", "A">>, <<"2", "8">>, <<"3", "2">>, <<"0", "0">>, <<"2", "9">>, <<"4", "7">>, <<"4", "8">>, <<"F", "F">>, <<"3", "C">>}},
     status |-> {<<"<", "I", "d", "l", "e", ">">>,
                 <<"<", "R", "u", "n", "|", "F", "S", ":", "0", ",", "0", ">">>,
                 <<"<", "S", "l", "e", "e", "p", ">">>,
                 <<"<", "H", "o", "l", "d", ":", "0", ">">>,
                 <<"<", "J", "o", "g", ">">>,
                 <<"<", ">">>,
                 <<"<", "i", "d", "l", "e", ">">>,
                 <<"<", "A", "l", "a", "r", "m", ">">>,
                 <<"<", "C", "h", "e", "c", "k", "|", "P", "n", ":", "X", ">">>,
                 <<"<", "D", "o", "o", "r", ">">>,
                 <<"<", "H", "o", "m", "e", ">">>,
                 <<"<", "H", "o", "l", "d", ">">>},
     ERR |-> {<<"0">>, <<"7">>, <<"1", "3">>, <<"1", "0", "0">>, <<"1", "0", "1">>, <<"-", "1">>, <<"-", "2", "8">>, <<"-", "2", "7">>, <<"-", "6", "7">>, <<"-", "6", "8">>, <<"x">>, <<>>, <<"6", "0", "0", "5">>, <<"6", "0", "0", "6">>, <<"1", "0", "1", "4">>, <<"3", "3", "3">>, <<"+", "5">>, <<"7", ".", "0">>, <<"0", "x", "1">>, <<"0", "0", "7">>}]

\* One value reported by a device is decoded: by get_error_and_state of
\* SMC100, by get_current_status of CNCRouter or by error of PI.
Decode(op, wire) ==
    /\ runpc = "idle"
    /\ runcall' = [op |-> op, wire |-> wire]
    /\ runLog' = <<>>
    /\ runOut' = Some(CASE op = "get_error_and_state" -> decode_error_and_state(wire)
                        [] op = "get_current_status" -> parse_status(wire)
                        [] op = "error" -> pi_error(wire))
    /\ runpc' = "ended"
    /\ UNCHANGED exceptRun

NextDecode ==
    \/ \E wire \in Wire.TS : Decode("get_error_and_state", wire)
    \/ \E wire \in Wire.status : Decode("get_current_status", wire)
    \/ \E wire \in Wire.ERR : Decode("error", wire)
    \/ RunReturn

SpecDecode == InitIdle /\ [][NextDecode]_vars


(***************************************************************************)
(* Vector                                                                  *)
(***************************************************************************)

MaxDim == 3

\* The data of the vectors built and combined: up to MaxDim integers.
VectorData == UNION {[1..n -> {0 - 1, 0, 2}] : n \in 0..MaxDim}

\* Vector.__init__ that takes as many values as dim and one more.
Vector_init_lax(args, dim) ==
    IF dim = None THEN [kind |-> "return", data |-> args]
    ELSE IF Len(args) > The(dim) + 1 THEN [kind |-> "ValueError"]
    ELSE [kind |-> "return",
          data |-> args \o [i \in 1..(The(dim) - Len(args)) |-> 0]]

\* Vector(*args, dim=dim): with dim, more values than dim raise ValueError
\* and fewer are completed with 0; without, the data are the values.
Vector_init(args, dim) ==
    IF dim = None THEN [kind |-> "return", data |-> args]
    ELSE IF Len(args) > The(dim) THEN [kind |-> "ValueError"]
    ELSE [kind |-> "return",
          data |-> args \o [i \in 1..(The(dim) - Len(args)) |-> 0]]

\* Vector.__add__ adding into the data of self.
Vector_add_inplace(self, other) ==
    IF Len(other) # Len(self)
    THEN [kind |-> "ValueError", self |-> self, other |-> other]
    ELSE [kind |-> "return", data |-> [i \in 1..Len(self) |-> self[i] + other[i]],
          self |-> [i \in 1..Len(self) |-> self[i] + other[i]], other |-> other]

\* Vector.__add__: the result is a new Vector built from the data of self, to
\* which the components of other are added.  The data of the two operands
\* after the call are part of the outcome.
Vector_add(self, other) ==
    IF Len(other) # Len(self)
    THEN [kind |-> "ValueError", self |-> self, other |-> other]
    ELSE [kind |-> "return", data |-> [i \in 1..Len(self) |-> self[i] + other[i]],
          self |-> self, other |-> other]

\* Vector.__sub__.
Vector_sub(self, other) ==
    IF Len(other) # Len(self)
    THEN [kind |-> "ValueError", self |-> self, other |-> other]
    ELSE [kind |-> "return", data |-> [i \in 1..Len(self) |-> self[i] - other[i]],
          self |-> self, other |-> other]

\* Vector.__mul__ by a Vector: the result is Vector(dim=dim), filled with
\* the products once the lengths are known to be equal.
Vector_mul(self, other) ==
    IF Len(other) # Len(self)
    THEN [kind |-> "ValueError", self |-> self, other |-> other]
    ELSE [kind |-> "return",
          data |-> [i \in 1..Len(self) |-> self[i] * other[i]],
          self |-> self, other |-> other]

\* Vector.__truediv__ by a Vector: only int and float are divided by.
Vector_truediv(self, other) == [kind |-> "TypeError", self |-> self, other |-> other]

\* Vector.__eq__.
Vector_eq(self, other) ==
    IF Len(self) # Len(other) THEN FALSE
    ELSE \A i \in 1..Len(self) : self[i] = other[i]

\* Vector(*args, dim=dim) is evaluated.
VectorNew(args, dim) ==
    /\ runpc = "idle"
    /\ runcall' = [op |-> "Vector", args |-> args, dim |-> dim]
    /\ runLog' = <<>>
    /\ runOut' = Some(Vector_init(args, dim))
    /\ runpc' = "ended"
    /\ UNCHANGED exceptRun

\* a + b, a - b, a * b or a / b is evaluated for two Vectors.
VectorBinary(op, a, b) ==
    /\ runpc = "idle"
    /\ runcall' = [op |-> op, a |-> a, b |-> b]
    /\ runLog' = <<>>
    /\ runOut' = Some(CASE op = "add" -> Vector_add(a, b)
                        [] op = "sub" -> Vector_sub(a, b)
                        [] op = "mul" -> Vector_mul(a, b)
                        [] op = "truediv" -> Vector_truediv(a, b))
    /\ runpc' = "ended"
    /\ UNCHANGED exceptRun

\* (a + b) - b == a is evaluated: the sum, then the difference of the sum
\* and of what b is after the sum, compared with what a is after the sum.
VectorRoundTrip(a, b) ==
    /\ runpc = "idle"
    /\ runcall' = [op |-> "roundtrip", a |-> a, b |-> b]
    /\ runLog' = <<>>
    /\ LET sum == Vector_add(a, b)
           diff == Vector_sub(sum.data, sum.other)
       IN  runOut' = IF sum.kind # "return" THEN Some([kind |-> sum.kind])
                     ELSE Some([kind |-> "return", value |-> Vector_eq(diff.data, sum.self)])
    /\ runpc' = "ended"
    /\ UNCHANGED exceptRun

NextVector ==
    \/ \E args \in VectorData, dim \in {None} \cup {Some(n) : n \in 0..MaxDim} :
           VectorNew(args, dim)
    \/ \E op \in {"add", "sub", "mul", "truediv"}, a \in VectorData, b \in VectorData :
           VectorBinary(op, a, b)
    \/ \E a \in VectorData, b \in VectorData : VectorRoundTrip(a, b)
    \/ RunReturn

SpecVector == InitIdle /\ [][NextVector]_vars


(***************************************************************************)
(* SMC100: set_position                                                    *)
(***************************************************************************)

\* The states of the controller during a move, and how it reports each in
\* the last two digits of the payload of TS.
MoveStates ==
    [MOVING |-> <<"2", "8">>, READY_FROM_MOVING |-> <<"3", "3">>,
     READY_FROM_HOMING |-> <<"3", "2">>, DISABLE_FROM_MOVING |-> <<"3", "D">>]

\* set_position(addr, value, blocking) is called while the controller is in
\* the state dev: is_disabled = False sends MM1 to all controllers, then
\* PA and the value go to addr; without blocking the call ends there.
CallSetPositionOf(addr, value, blocking, dev) ==
    /\ runpc = "idle"
    /\ runcall' = [op |-> "set_position", addr |-> addr, value |-> value,
                   blocking |-> blocking, dev |-> dev, error_and_state |-> None]
    /\ runLog' = <<[addr |-> None, cmd |-> "MM1"],
                   [addr |-> Some(addr), cmd |-> "PA", value |-> value]>>
    /\ IF blocking THEN runpc' = "query" /\ runOut' = None
                   ELSE runpc' = "ended" /\ runOut' = Some([kind |-> "return"])
    /\ UNCHANGED exceptRun

\* get_error_and_state(addr) of set_position: the controller reports its
\* state, which is kept in error_and_state; the loop is not entered when it
\* is not MOVING.
SetPositionQuery ==
    /\ runpc = "query" /\ runcall.op = "set_position"
    /\ LET res == decode_error_and_state(<<"0", "0", "0", "0">> \o MoveStates[runcall.dev])
       IN  /\ runcall' = [runcall EXCEPT !.error_and_state = Some(res.state)]
           /\ IF ES_is_moving(res.state)
              THEN runpc' = "sleep" /\ runOut' = None
              ELSE runpc' = "ended" /\ runOut' = Some([kind |-> "return"])
    /\ runLog' = Append(runLog, [addr |-> Some(runcall.addr), cmd |-> "TS?"])
    /\ UNCHANGED exceptRun

\* One turn of while error_and_state.is_moving: time.sleep(0.1).  The loop
\* tests the state read before it and sends nothing.
SetPositionSleep ==
    /\ runpc = "sleep" /\ runcall.op = "set_position"
    /\ IF ES_is_moving(The(runcall.error_and_state))
       THEN runpc' = "sleep" /\ runOut' = None
       ELSE runpc' = "ended" /\ runOut' = Some([kind |-> "return"])
    /\ UNCHANGED <<runcall, runLog>>
    /\ UNCHANGED exceptRun

\* The controller ends its move.
MoveEnds ==
    /\ runcall.op = "set_position" /\ runcall.dev = "MOVING"
    /\ runcall' = [runcall EXCEPT !.dev = "READY_FROM_MOVING"]
    /\ UNCHANGED <<runpc, runLog, runOut>>
    /\ UNCHANGED exceptRun

NextSetPosition ==
    \/ \E addr \in 1..3, value \in {0, 5, 10}, blocking \in BOOLEAN,
          dev \in DOMAIN MoveStates : CallSetPositionOf(addr, value, blocking, dev)
    \/ SetPositionQuery
    \/ SetPositionSleep
    \/ MoveEnds
    \/ RunReturn

\* The call goes on as long as it can, and the move of the controller ends.
SpecSetPosition ==
    /\ InitIdle /\ [][NextSetPosition]_vars
    /\ WF_vars(SetPositionQuery) /\ WF_vars(SetPositionSleep) /\ WF_vars(MoveEnds)


(***************************************************************************)
(* M3FS: the position setter and the closed-loop status                    *)
(***************************************************************************)

MaxStatusPolls == 3

\* An integer of Python of any size is written [hi, lo], its value being
\* hi * 65536 + lo with lo in 0..65535: lo is value & 0xFFFF and hi is
\* value >> 16.  The counts a caller asks for: around zero and around both
\* ends of the 32-bit range.
Counts ==
    {[hi |-> h, lo |-> l] : h \in {0 - 32769, 0 - 32768, 0 - 1, 0, 1, 32767, 32768},
                            l \in {0, 1, 65535}}

LowerHex == <<"0", "1", "2", "3", "4", "5", "6", "7", "8", "9",
              "a", "b", "c", "d", "e", "f">>

\* hexlify(count.to_bytes(4, "big", signed=True)).decode() sending the low
\* half first.
to_bytes_hex_little(count) ==
    LET hex4(n) == <<LowerHex[(n \div 4096) + 1], LowerHex[((n \div 256) % 16) + 1],
                     LowerHex[((n \div 16) % 16) + 1], LowerHex[(n % 16) + 1]>>
    IN  IF count.hi < 0 - 32768 \/ count.hi > 32767 THEN None
        ELSE Some(hex4(count.lo) \o hex4(count.hi % 65536))

\* hexlify(count.to_bytes(4, "big", signed=True)).decode(): None stands for
\* the OverflowError of to_bytes on a count that does not fit in 4 bytes.
to_bytes_hex(count) ==
    LET hex4(n) == <<LowerHex[(n \div 4096) + 1], LowerHex[((n \div 256) % 16) + 1],
                     LowerHex[((n \div 16) % 16) + 1], LowerHex[(n % 16) + 1]>>
    IN  IF count.hi < 0 - 32768 \/ count.hi > 32767 THEN None
        ELSE Some(hex4(count.hi % 65536) \o hex4(count.lo))

\* int.from_bytes(bytes.fromhex(text), "big", signed=signed) for a text of up
\* to 4 bytes: None stands for the ValueError of fromhex on an odd number of
\* digits or on a character that is no hexadecimal digit.
from_hex(text, signed) ==
    LET digit(c) == IF \E d \in 1..16 : HexDigits[d] = c
                    THEN (CHOOSE d \in 1..16 : HexDigits[d] = c) - 1
                    ELSE IF \E d \in 1..16 : LowerHex[d] = c
                    THEN (CHOOSE d \in 1..16 : LowerHex[d] = c) - 1
                    ELSE 0 - 1
        n == Len(text) \div 2
        padded == [i \in 1..(8 - Len(text)) |-> "0"] \o text
        half(k) == 4096 * digit(padded[k]) + 256 * digit(padded[k + 1])
                       + 16 * digit(padded[k + 2]) + digit(padded[k + 3])
        negative == signed /\ n > 0 /\ digit(text[1]) >= 8
    IN  IF Len(text) % 2 = 1 \/ \E i \in 1..Len(text) : digit(text[i]) < 0 THEN None
        ELSE IF ~negative THEN Some([hi |-> half(1), lo |-> half(5)])
        ELSE IF n = 4 THEN Some([hi |-> half(1) - 65536, lo |-> half(5)])
        ELSE IF n = 3 THEN Some([hi |-> half(1) - 256, lo |-> half(5)])
        ELSE IF n = 2 THEN Some([hi |-> 0 - 1, lo |-> half(5)])
        ELSE Some([hi |-> 0 - 1, lo |-> half(5) + 65280])

\* M3FS.__get_closed_loop_status on what command() returned: no data, or
\* a number of values that is not 3, raise ProtocolError; the values are
\* the motor status (unsigned), the position and the error (signed).
closed_loop_status(res) ==
    IF res = None THEN [kind |-> "ProtocolError"]
    ELSE LET fields == Split(The(res), " ")
         IN  IF \E i \in 1..Len(fields) : from_hex(fields[i], FALSE) = None
             THEN [kind |-> "ValueError"]
             ELSE IF Len(fields) # 3 THEN [kind |-> "ProtocolError"]
             ELSE [kind |-> "return",
                   motor_status |-> The(from_hex(fields[1], FALSE)),
                   position |-> The(from_hex(fields[2], TRUE)),
                   error |-> The(from_hex(fields[3], TRUE))]

\* M3FS.is_moving testing mask 0x02 of the motor status.
m3_is_moving_mask2(status) == BitSet(status.motor_status.lo, 1)

\* M3FS.is_moving: bool(motor_status & 4).
m3_is_moving(status) == BitSet(status.motor_status.lo, 2)

\* What the controller answers to MOVE_TO_TARGET and to the status query,
\* the position reported being the one asked for or -1.
M3Replies ==
    [ack |-> {<<"0", "8">>, <<"0", "8", " ", "0", "0">>, <<"1", "0">>, <<"0">>},
     status |-> {<<"1", "0">>,
                 <<"1", "0", " ", "0", "0", "0", "0", "0", "4">>,
                 <<"0", "8", " ", "0", "0", "0", "0", "0", "4", " ", "0", "0", "0", "0", "0", "0", "0", "0", " ", "0", "0", "0", "0", "0", "0", "0", "0">>,
                 <<"1", "0", " ", "0", "0", "0", "0", "0", "G", " ", "0", "0", "0", "0", "0", "0", "0", "0", " ", "0", "0", "0", "0", "0", "0", "0", "0">>},
     motor |-> {<<"0", "0", "0", "0", "0", "0">>, <<"0", "0", "0", "0", "0", "4">>, <<"0", "0", "0", "0", "0", "3">>, <<"0", "0", "0", "0", "0", "C">>, <<"0", "0", "0", "0", "F", "B">>}]

\* stage.position = Vector(x), x being count * resolution_um and past the
\* checks of Stage: the count is encoded and MOVE_TO_TARGET is sent with it.
CallM3Position(count) ==
    /\ runpc = "idle"
    /\ runcall' = [op |-> "m3_position", count |-> count, data |-> to_bytes_hex(count)]
    /\ IF to_bytes_hex(count) = None
       THEN /\ runpc' = "ended" /\ runLog' = <<>>
            /\ runOut' = Some([kind |-> "OverflowError"])
       ELSE /\ runpc' = "ack"
            /\ runLog' = <<[e |-> "w", command |-> 8, data |-> to_bytes_hex(count)]>>
            /\ runOut' = None
    /\ UNCHANGED exceptRun

\* command(MOVE_TO_TARGET) receives its reply: once it is accepted the loop
\* of the setter starts with a first status query.
M3Ack(res) ==
    /\ runpc = "ack" /\ runcall.op = "m3_position"
    /\ LET r == command_check(8, res)
       IN  IF r.kind = "return"
           THEN /\ runpc' = "poll" /\ runOut' = None
                /\ runLog' = runLog \o <<[e |-> "ack"], [e |-> "w", command |-> 10, data |-> None]>>
           ELSE /\ runpc' = "ended" /\ runOut' = Some([kind |-> r.kind])
                /\ runLog' = runLog
    /\ UNCHANGED runcall
    /\ UNCHANGED exceptRun

\* One test of while self.is_moving: the reply to the status query is
\* checked and decoded; with the moving bit set the status is asked again.
M3Status(res) ==
    /\ runpc = "poll" /\ runcall.op = "m3_position"
    /\ LET r == command_check(10, res)
           st == closed_loop_status(r.value)
           read == [e |-> "r", motor_status |-> st.motor_status, position |-> st.position]
       IN  IF r.kind # "return"
           THEN runpc' = "ended" /\ runOut' = Some([kind |-> r.kind]) /\ runLog' = runLog
           ELSE IF st.kind # "return"
           THEN runpc' = "ended" /\ runOut' = Some([kind |-> st.kind]) /\ runLog' = runLog
           ELSE IF m3_is_moving(st)
           THEN /\ Cardinality({i \in 1..Len(runLog) : runLog[i].e = "r"}) < MaxStatusPolls
                /\ runpc' = "poll" /\ runOut' = None
                /\ runLog' = runLog \o <<read, [e |-> "w", command |-> 10, data |-> None]>>
           ELSE /\ runpc' = "ended" /\ runOut' = Some([kind |-> "return"])
                /\ runLog' = Append(runLog, read)
    /\ UNCHANGED runcall
    /\ UNCHANGED exceptRun

NextM3Position ==
    \/ \E count \in Counts : CallM3Position(count)
    \/ \E res \in M3Replies.ack : M3Ack(res)
    \/ \E res \in M3Replies.status : M3Status(res)
    \/ \E m \in M3Replies.motor, echo \in BOOLEAN :
           /\ runpc = "poll" /\ runcall.op = "m3_position"
           /\ M3Status(<<"1", "0", " ">> \o m \o <<" ">>
                           \o (IF echo THEN The(runcall.data)
                                       ELSE <<"F", "F", "F", "F", "F", "F", "F", "F">>)
                           \o <<" ", "0", "0", "0", "0", "0", "0", "0", "0">>)
    \/ RunReturn

SpecM3Position == InitIdle /\ [][NextM3Position]_vars


(***************************************************************************)
(* Tic: write_32                                                           *)
(***************************************************************************)

\* Tic.write_32(command, data): the fields the control transfer is given,
\* wValue = data & 0xFFFF and wIndex = data >> 16.  For an integer of Python
\* written hi * 65536 + lo (see Counts), & 0xFFFF is lo and >> 16 is hi, which
\* is negative for a negative value.
write_32(command, data) ==
    [bmRequestType |-> 64, bRequest |-> command, wValue |-> data.lo, wIndex |-> data.hi]

\* set_target_position(pos) (command 0xE0) or set_target_velocity(velocity)
\* (command 0xE3) is called with a value of 32 bits.
TicWrite32(command, data) ==
    /\ runpc = "idle"
    /\ runcall' = [op |-> "write_32", command |-> command, data |-> data]
    /\ runLog' = <<write_32(command, data)>>
    /\ runOut' = Some([kind |-> "return"])
    /\ runpc' = "ended"
    /\ UNCHANGED exceptRun

NextTicWrite ==
    \/ \E command \in {224, 227},
          h \in {0 - 32768, 0 - 32767, 0 - 2, 0 - 1, 0, 1, 2, 32766, 32767},
          l \in {0, 1, 255, 256, 32768, 65535} :
           TicWrite32(command, [hi |-> h, lo |-> l])
    \/ RunReturn

SpecTicWrite == InitIdle /\ [][NextTicWrite]_vars


(***************************************************************************)
(* PI: the position getter                                                 *)
(***************************************************************************)

MaxAxes == 3

\* The query the position getter writes at every turn of its loop, were it
\* always for the first address.
pi_position_query_first(addrs, idx) ==
    ToDec(addrs[1]) \o <<" ", "P", "O", "S", "?", LF>>

\* The query the position getter writes for the address of index idx:
\* query("POS", a) writes f"{a} POS?\n".
pi_position_query(addrs, idx) ==
    ToDec(addrs[idx]) \o <<" ", "P", "O", "S", "?", LF>>

\* The body of the loop of the position getter on the line read by
\* query("POS", a): the payload is split at '=', must have two parts of
\* which the first reads 1, and the second is the position (float raises
\* ValueError on what is no number; the numbers replied here are whole).
pi_position_value(a, line) ==
    LET value(axis, position) ==
            IF axis = None THEN [kind |-> "ValueError"]
            ELSE IF axis # Some(1) THEN [kind |-> "AssertionError"]
            ELSE IF position = None THEN [kind |-> "ValueError"]
            ELSE [kind |-> "return", value |-> The(position)]
        parts(resp) ==
            IF Len(resp) # 2 THEN [kind |-> "AssertionError"]
            ELSE value(PyInt(resp[1]), PyInt(resp[2]))
        payload(q) ==
            IF q.kind # "return" THEN [kind |-> q.kind]
            ELSE parts(Split(q.value[1], "="))
    IN  payload(pi_query(Some(a), <<line>>).out)

\* The lists of addresses a PI stage is built with.
PIAddresses ==
    {as \in UNION {[1..n -> 1..MaxAxes] : n \in 1..MaxAxes} :
        \A i, j \in 1..Len(as) : i # j => as[i] # as[j]}

\* What a controller answers to POS?: its address as sender or another, the
\* axis 1 or another, a position or a text that is no number.
PIPositionReplies ==
    {[sender |-> a, axis |-> x, text |-> t] :
        a \in 1..MaxAxes, x \in {<<"1">>, <<"2">>},
        t \in {<<"5">>, <<"-", "2">>, <<"1", "2">>, <<"x">>}}

\* stage.position is read: the loop starts with the query of the first
\* address.
CallPIPosition(addrs) ==
    /\ runpc = "idle"
    /\ runcall' = [op |-> "pi_position", addresses |-> addrs, idx |-> 1,
                   positions |-> <<>>]
    /\ runLog' = <<[e |-> "w", text |-> pi_position_query(addrs, 1)]>>
    /\ runOut' = None
    /\ runpc' = "reply"
    /\ UNCHANGED exceptRun

\* The line of the controller is read and checked, its position appended;
\* then the next address is queried, or Vector(*positions) is returned.
PIPositionReply(reply) ==
    /\ runpc = "reply" /\ runcall.op = "pi_position"
    /\ \E res \in {pi_position_value(
                      runcall.addresses[runcall.idx],
                      <<"0", " ">> \o ToDec(reply.sender) \o <<" ">> \o reply.axis
                          \o <<"=">> \o reply.text \o <<LF>>)} :
       \E read \in {[e |-> "r", reply |-> reply]} :
           IF res.kind # "return"
           THEN /\ runpc' = "ended" /\ runOut' = Some(res)
                /\ runLog' = Append(runLog, read)
                /\ runcall' = runcall
           ELSE IF runcall.idx < Len(runcall.addresses)
           THEN /\ runpc' = "reply" /\ runOut' = None
                /\ runLog' = runLog \o <<read, [e |-> "w",
                                text |-> pi_position_query(runcall.addresses, runcall.idx + 1)]>>
                /\ runcall' = [runcall EXCEPT !.idx = @ + 1,
                                              !.positions = Append(@, res.value)]
           ELSE /\ runpc' = "ended"
                /\ runOut' = Some([kind |-> "return",
                                   data |-> Vector_init(Append(runcall.positions, res.value), None).data])
                /\ runLog' = Append(runLog, read)
                /\ runcall' = [runcall EXCEPT !.positions = Append(@, res.value)]
    /\ UNCHANGED exceptRun

NextPIPosition ==
    \/ \E addrs \in PIAddresses : CallPIPosition(addrs)
    \/ \E reply \in PIPositionReplies : PIPositionReply(reply)
    \/ RunReturn

SpecPIPosition == InitIdle /\ [][NextPIPosition]_vars


(***************************************************************************)
(* SMC100: the properties of ErrorAndState                                 *)
(***************************************************************************)

\* The properties of ErrorAndState, is_referenced taking NOT_REFERENCED_FROM_MOVING
\* for the last state that is not referenced.
ErrorAndState_short(state) ==
    [is_referenced |-> ~(/\ State[state] >= State.NOT_REFERENCED_FROM_RESET
                         /\ State[state] <= State.NOT_REFERENCED_FROM_MOVING),
     is_ready |-> ES_is_ready(state),
     is_moving |-> ES_is_moving(state),
     is_homing |-> State[state] >= State.HOMING_RS232 /\ State[state] <= State.HOMING_SMCRC,
     is_jogging |-> /\ State[state] >= State.JOGGING_FROM_READY
                    /\ State[state] <= State.JOGGING_FROM_DISABLE,
     is_disabled |-> /\ State[state] >= State.DISABLE_FROM_READY
                     /\ State[state] <= State.DISABLE_FROM_JOGGING]

\* The properties of an ErrorAndState whose state is the member named state
\* (state is never None once get_error_and_state has returned).
ErrorAndState(state) ==
    [is_referenced |-> ~(/\ State[state] >= State.NOT_REFERENCED_FROM_RESET
                         /\ State[state] <= State.NOT_REFERENCED_FROM_JOGGING),
     is_ready |-> ES_is_ready(state),
     is_moving |-> ES_is_moving(state),
     is_homing |-> State[state] >= State.HOMING_RS232 /\ State[state] <= State.HOMING_SMCRC,
     is_jogging |-> /\ State[state] >= State.JOGGING_FROM_READY
                    /\ State[state] <= State.JOGGING_FROM_DISABLE,
     is_disabled |-> /\ State[state] >= State.DISABLE_FROM_READY
                     /\ State[state] <= State.DISABLE_FROM_JOGGING]

\* The payload of a TS query is decoded by get_error_and_state and the
\* properties of the result are read.
ReadErrorAndState(res) ==
    /\ runpc = "idle"
    /\ runcall' = [op |-> "error_and_state", wire |-> res]
    /\ runLog' = <<>>
    /\ runOut' = LET es == decode_error_and_state(res)
                 IN  Some(IF es.kind # "ok" THEN [kind |-> es.kind]
                          ELSE [kind |-> "ok", state |-> es.state, error |-> es.error,
                                is |-> ErrorAndState(es.state)])
    /\ runpc' = "ended"
    /\ UNCHANGED exceptRun

NextErrorAndState ==
    \/ \E f \in {<<"0", "0", "0", "0">>, <<"0", "0", "0", "1">>, <<"0", "2", "4", "0">>} :
       \E h, l \in 1..16 : ReadErrorAndState(f \o <<HexDigits[h], HexDigits[l]>>)
    \/ RunReturn

SpecErrorAndState == InitIdle /\ [][NextErrorAndState]_vars


(***************************************************************************)
(* SMC100: the commands of an instance on a Link it shares                 *)
(***************************************************************************)

MaxShared == 4      \* controllers of the daisy chain

\* The line Link.send(address, command) writes (CR LF left out): the command,
\* with the address before it unless the address is None.
Link_send(address, command) ==
    IF address = None THEN command ELSE ToDec(The(address)) \o command

\* f"{x:.5f}" of a whole number.
Fixed5(x) == ToDec(x) \o <<".", "0", "0", "0", "0", "0">>

\* The lines an operation of the instance with the addresses own writes on
\* the Link.  addr and x are the arguments of move_relative and of
\* set_position, states[i] is the state the controller own[i] reports to TS.
\* The position setter (its value being valid), move_relative and
\* set_position first set is_disabled to False, which is
\* enter_leave_disable_state(None, enter=False); the position setter then
\* sends the PA commands of its controllers joined by CR LF in one send with
\* the address None.  is_moving and is_disabled query the controllers in
\* order up to the first whose state answers the question.
smc100_lines(op, own, addr, x, states) ==
    LET ts(i) == Link_send(Some(own[i]), <<"T", "S", "?">>)
        mm1 == Link_send(None, <<"M", "M", "1">>)
        asked(Q(_)) == IF \E i \in 1..Len(own) : Q(states[i])
                       THEN CHOOSE i \in 1..Len(own) :
                                Q(states[i]) /\ \A j \in 1..(i - 1) : ~Q(states[j])
                       ELSE Len(own)
        moves(st) == LET is == ErrorAndState(st)
                     IN  is.is_moving \/ is.is_homing \/ is.is_jogging
        disabled(st) == ErrorAndState(st).is_disabled
    IN  CASE op = "position" ->
                <<mm1>> \o [i \in 1..Len(own) |->
                               Link_send(None, ToDec(own[i]) \o <<"P", "A">> \o Fixed5(x))]
          [] op = "move_relative" ->
                <<mm1, Link_send(Some(addr), <<"P", "R">> \o Fixed5(x))>>
          [] op = "set_position" ->
                <<mm1, Link_send(Some(addr), <<"P", "A">> \o Fixed5(x)),
                  Link_send(Some(addr), <<"T", "S", "?">>)>>
          [] op = "home" ->
                [i \in 1..(2 * Len(own)) |->
                    IF i % 2 = 1 THEN ts((i + 1) \div 2)
                    ELSE Link_send(Some(own[i \div 2]), <<"O", "R">>)]
          [] op = "is_moving" -> [i \in 1..asked(moves) |-> ts(i)]
          [] op = "is_disabled" -> [i \in 1..asked(disabled) |-> ts(i)]

\* An operation of the instance with the addresses own, on a Link whose
\* other controllers belong to other instances.
SharedLinkCall(op, own, addr, x, states) ==
    /\ runpc = "idle"
    /\ runcall' = [op |-> op, own |-> own, addr |-> addr, x |-> x, states |-> states]
    /\ runLog' = smc100_lines(op, own, addr, x, states)
    /\ runOut' = Some([kind |-> "return"])
    /\ runpc' = "ended"
    /\ UNCHANGED exceptRun

NextSharedLink ==
    \/ \E own \in {o \in UNION {[1..n -> 1..MaxShared] : n \in 1..2} :
                      \A i, j \in 1..Len(o) : i # j => o[i] # o[j]} :
       \E op \in {"position", "move_relative", "set_position", "home",
                  "is_moving", "is_disabled"} :
       \E i \in 1..Len(own), x \in {0, 5} :
       \E states \in [1..Len(own) -> {"READY_FROM_MOVING", "MOVING", "DISABLE_FROM_READY",
                                      "HOMING_RS232"}] :
           SharedLinkCall(op, own, own[i], x, states)
    \/ RunReturn

SpecSharedLink == InitIdle /\ [][NextSharedLink]_vars


(***************************************************************************)
(* CNCRouter: the operations and the answers in transit                    *)
(***************************************************************************)

MaxDue == 3         \* commands written whose answers are not read yet

\* The operations of CNCRouter that ask for the status.
StatusOps == {"get_current_status", "is_moving", "position"}

\* An operation of CNCRouter is called, after the one before has ended.  The
\* record of the call holds the transport too: due, the commands GRBL has not
\* answered yet, and unread, the lines it sent that are not read yet; what
\* an earlier call left there is marked old.  get_current_status, is_moving
\* and the position getter begin by writing '?'; home(wait=False) writes '$H'
\* and reads nothing.
CallCNCOp(op) ==
    /\ runpc \in {"idle", "ended"}
    /\ LET old(q) == [i \in 1..Len(q) |-> [q[i] EXCEPT !.tag = "old"]]
           due == IF runpc = "idle" THEN <<>> ELSE old(runcall.due)
           unread == IF runpc = "idle" THEN <<>> ELSE old(runcall.unread)
       IN  /\ Len(due) + Len(unread) < MaxDue
           /\ runcall' = [op |-> op, at |-> "first", status |-> <<>>, got |-> "none",
                          due |-> Append(due, [cmd |-> IF op = "home" THEN "$H" ELSE "?",
                                                tag |-> "cur"]),
                          unread |-> unread]
    /\ IF op = "home"
       THEN runpc' = "ended" /\ runOut' = Some([kind |-> "return"])
       ELSE runpc' = "recv" /\ runOut' = None
    /\ UNCHANGED runLog
    /\ UNCHANGED exceptRun

\* GRBL answers the oldest command it has not answered: 'ok' to '$H', the
\* line report to '?'.
CNCDeviceReplies(report) ==
    /\ runcall.op \in StatusOps \cup {"home"}
    /\ runcall.due # <<>>
    /\ LET c == Head(runcall.due)
       IN  runcall' = [runcall EXCEPT
                          !.due = Tail(@),
                          !.unread = Append(@, [line |-> IF c.cmd = "?" THEN report ELSE Text.ok,
                                                cmd |-> c.cmd, tag |-> c.tag])]
    /\ UNCHANGED <<runpc, runLog, runOut>>
    /\ UNCHANGED exceptRun

\* One receive() of get_current_status: the oldest unread line, or '' when
\* none has come before the reads time out.  get_current_status goes on by
\* gcs_step; is_moving calls it again while it returns None, the position
\* getter while the dictionary has no WCO.
CNCReceive ==
    /\ runpc = "recv" /\ runcall.op \in StatusOps
    /\ runcall.unread = <<>> => Len(runcall.due) < MaxDue
    /\ LET timeout == runcall.unread = <<>>
           line == IF timeout THEN <<>> ELSE Head(runcall.unread).line
           got == IF timeout THEN "none" ELSE Head(runcall.unread).tag
           unread == IF timeout THEN <<>> ELSE Tail(runcall.unread)
           st == gcs_step(runcall.at, runcall.status, line)
           again == /\ st.out # None
                    /\ \/ runcall.op = "is_moving" /\ The(st.out).kind = "None"
                       \/ runcall.op = "position" /\ needs_another(The(st.out))
           out == IF st.out = None \/ again THEN None
                  ELSE IF The(st.out).kind # "status" THEN st.out
                  ELSE IF runcall.op = "position"
                  THEN Some(mpos_minus_wco(The(st.out).others))
                  ELSE IF runcall.op = "is_moving"
                  THEN Some([kind |-> "return",
                             value |-> The(st.out).cncstatus \in {Text.Run, Text.Home}])
                  ELSE st.out
       IN  /\ runcall' = [runcall EXCEPT
                             !.at = IF again THEN "first" ELSE st.at,
                             !.status = IF again THEN <<>>
                                        ELSE IF runcall.at = "alarm" THEN @ ELSE line,
                             !.got = got,
                             !.unread = unread,
                             !.due = IF st.write \/ again
                                     THEN Append(@, [cmd |-> "?", tag |-> "cur"]) ELSE @]
           /\ runOut' = out
           /\ runpc' = IF out = None THEN "recv" ELSE "ended"
    /\ UNCHANGED runLog
    /\ UNCHANGED exceptRun

\* The reports of a GRBL that answers every '?' by a status report, with the
\* origin WCO or without it.
SyncReports ==
    LET mpos == [key |-> Text.MPos, items |-> <<<<"2">>, <<"1">>>>]
        wco == [key |-> Text.WCO, items |-> <<<<"1">>, <<"0">>>>]
    IN  {ReportText(Text.Idle, <<mpos, wco>>), ReportText(Text.Run, <<mpos>>),
         ReportText(Text.Home, <<mpos, wco>>)}

NextCNCSync ==
    \/ \E op \in StatusOps \cup {"home"} : CallCNCOp(op)
    \/ \E report \in SyncReports : CNCDeviceReplies(report)
    \/ CNCReceive

SpecCNCSync == InitIdle /\ [][NextCNCSync]_vars

\* The lines of a GRBL that gives no report: an error, a message, a report
\* cut short.
DeafLines == {Text.error1, Text.MsgReset, <<"<">> \o Text.Idle}

NextCNCDeaf ==
    \/ \E op \in {"is_moving", "position"} : CallCNCOp(op)
    \/ \E line \in DeafLines : CNCDeviceReplies(line)
    \/ CNCReceive

\* The call goes on as long as it can, and GRBL answers what it was sent.
SpecCNCDeaf ==
    /\ InitIdle /\ [][NextCNCDeaf]_vars
    /\ WF_vars(CNCReceive) /\ WF_vars(\E line \in DeafLines : CNCDeviceReplies(line))


(***************************************************************************)
(* Properties of the Stage operations                                      *)
(***************************************************************************)

\* The running call went through the position setter, which has finished:
\* home() does so only in the driver that keeps Stage.home.
SetterRan ==
    /\ pc \notin {"idle", "setter", "home"}
    /\ \/ call.op \in {"set_position", "move_to"}
       \/ call.op = "home" /\ driver = "M3FS"

\* C1: for every driver, a position whose length differs from num_axis makes
\* the setter raise the dimension error, and nothing is written to the
\* transport during the call.
C1_DimensionErrorBeforeWrite ==
    (SetterRan /\ Len(call.value) # num_axis) =>
        /\ pc = "raised"
        /\ exc = Some("dimension")
        /\ sent = <<>>

C1_Witness ==
    /\ pc = "raised" /\ exc = Some("dimension") /\ sent = <<>>
    /\ driver = "SMC100" /\ Len(call.value) > num_axis

\* Every component of the value is within the limits that are set.
InRange(value) ==
    \A i \in 1..Len(value) :
        /\ (minimums # None /\ The(minimums)[i] # None) =>
               The(The(minimums)[i]) <= value[i]
        /\ (maximums # None /\ The(maximums)[i] # None) =>
               value[i] <= The(The(maximums)[i])

\* C2: for every driver, a position of the right length is accepted exactly
\* when every component is within the limits that are set (an unset limit
\* vector or component is no limit); otherwise the range error is raised and
\* nothing is written to the transport during the call.
C2_RangeCheckedBeforeWrite ==
    (SetterRan /\ Len(call.value) = num_axis) =>
        IF InRange(call.value)
        THEN pc # "raised" /\ exc = None /\ sent # <<>>
        ELSE /\ pc = "raised"
             /\ exc \in {Some("range_min"), Some("range_max")}
             /\ sent = <<>>

C2_Witness ==
    /\ pc = "raised" /\ exc = Some("range_max") /\ sent = <<>>
    /\ driver = "CNCRouter" /\ minimums = None
    /\ \E i \in 1..num_axis : The(maximums)[i] = None

WaitEvents == {"poll_T", "poll_F", "routine"}

\* C3: move_to(value, wait=True) sets the position first, then polls is_moving
\* and returns only after a poll that returned false; wait_routine, when set,
\* runs once after every poll that returned true and never after the poll
\* that returned false; when it is not set it never runs.
C3_MoveToWaits ==
    (call.op = "move_to" /\ call.wait) =>
        /\ \A i \in 1..Len(events) :
              /\ events[i] \in WaitEvents =>
                    \E j \in 1..(i - 1) : events[j] = "set"
              /\ events[i] = "routine" =>
                    wait_routine /\ i > 1 /\ events[i - 1] = "poll_T"
              /\ events[i] = "poll_T" =>
                    IF i < Len(events)
                    THEN events[i + 1] = (IF wait_routine THEN "routine" ELSE "poll_T")
                         \/ (~wait_routine /\ events[i + 1] = "poll_F")
                    ELSE pc = (IF wait_routine THEN "routine" ELSE "wait")
              /\ events[i] = "poll_F" => i = Len(events) /\ pc = "done"
        /\ pc = "done" =>
              /\ events # <<>>
              /\ events[Len(events)] = "poll_F"

C3_Witness ==
    /\ pc = "done" /\ call.op = "move_to" /\ call.wait /\ wait_routine
    /\ Len(events) >= 6
    /\ events[Len(events) - 1] = "routine"

\* C4: for every driver, move_to(value, wait=False) returns right after the
\* move command has been sent, without polling the device for the end of the
\* move.
C4_MoveToNoWaitDoesNotPoll ==
    (pc = "done" /\ call.op = "move_to" /\ ~call.wait) =>
        \A i \in 1..Len(events) : events[i] \notin PollEvents

\* C5: for every driver, home(wait=True) does not return while the homing it
\* started is still in progress.
C5_HomeWaitReturnsSettled ==
    (pc = "done" /\ call.op = "home" /\ call.wait) => devMoving = {}

(***************************************************************************)
(* Properties of the SMC100 Link and status decoding                       *)
(***************************************************************************)

IsPrefix(p, t) == Len(p) <= Len(t) /\ \A i \in 1..Len(p) : t[i] = p[i]
Writes(log) == Len(SelectSeq(log, LAMBDA e : e.ev = "w"))

\* C6: Link.response(address, command) returns the received line without its
\* prefix {address}{command}; a line that does not begin with that prefix
\* raises ProtocolError with query = the expected prefix and response = the
\* line received, and no payload is returned.
C6_ResponseStripsExactPrefix ==
    lastResp # None =>
        LET received == The(lastResp).received
            out == The(lastResp).out
            address == The(lastResp).address
            command == The(lastResp).command
            expected == IF address = Some(12) THEN <<"1", "2">> \o command
                        ELSE IF address = Some(1) THEN <<"1">> \o command
                        ELSE <<"2">> \o command
        IN  /\ out.kind = "ok" <=> IsPrefix(expected, received)
            /\ out.kind = "ok" => received = expected \o out.payload
            /\ out.kind # "ok" =>
                  /\ out = [kind |-> "ProtocolError", query |-> expected,
                            response |-> received]
                  /\ lpc # "done"
            /\ lcall.op = "response" =>
                  IF out.kind = "ok"
                  THEN lpc = "done" /\ lret = Some(out.payload) /\ lexc = None
                  ELSE lpc = "raised" /\ lexc = Some(out)

C6_Witness ==
    /\ lcall.op = "response" /\ lpc = "raised"
    /\ lcall.addrs = <<Some(12)>>
    /\ The(lexc).kind = "ProtocolError"
    /\ The(lexc).query = <<"1", "2", "T", "P">>
    /\ The(lexc).response = <<"1", "3", "T", "P", "5">>

\* C7: a non-lazy Link.query sends its request again once at most: one call
\* writes the request twice at most (a second mismatch is raised to the
\* caller).
C7_QueryRetriesOnce ==
    (lcall.op = "query" /\ ~lcall.lazy) => Writes(linkLog) <= 2

\* C8: the position getter of an SMC100 with N addresses writes its N TP?
\* queries before it reads the first response.
C8_PositionPipelines ==
    lcall.op = "position" =>
        \A i \in 1..Len(linkLog) :
            linkLog[i].ev = "r" =>
                Writes(SubSeq(linkLog, 1, i)) >= Len(lcall.addrs)

\* C9: get_error_and_state decodes a TS payload of 6 hexadecimal digits: the
\* first four are the bit mask of the fault flags, the last two the value of
\* the State; a payload that is not 6 characters long raises
\* ProtocolError("TS", payload). 000028 is no fault and MOVING, with is_moving
\* and without is_ready.
C9_StatusDecoding ==
    (lcall.op = "get_error_and_state" /\ lpc \in {"done", "raised"}) =>
        LET p == The(lastResp).out.payload
        IN  /\ lpc = "done" =>
                 /\ Len(p) = 6
                 /\ \A f \in DOMAIN Error :
                       f \in The(lret).error <=>
                           BitSet(HexValue(SubSeq(p, 1, 4)), Error[f])
                 /\ State[The(lret).state] = HexValue(SubSeq(p, 5, 6))
            /\ Len(p) # 6 =>
                 /\ lpc = "raised"
                 /\ lexc = Some([kind |-> "ProtocolError", query |-> <<"T", "S">>,
                                 response |-> p])
            /\ p = <<"0", "0", "0", "0", "2", "8">> =>
                 /\ lpc = "done"
                 /\ The(lret).error = {}
                 /\ The(lret).state = "MOVING"
                 /\ ES_is_moving(The(lret).state)
                 /\ ~ES_is_ready(The(lret).state)
            /\ p = <<"0", "2", "0", "3", "1", "E">> =>
                 /\ lpc = "done"
                 /\ The(lret).error = {"OUTPUT_POWER_EXCEEDED", "POSITIVE_END_OF_RUN",
                                       "NEGATIVE_END_OF_RUN"}
                 /\ The(lret).state = "HOMING_RS232"

C9_Witness ==
    /\ lcall.op = "get_error_and_state" /\ lpc = "done"
    /\ The(lastResp).out.payload = <<"0", "0", "0", "0", "2", "8">>
    /\ The(lret).state = "MOVING" /\ The(lret).error = {}

(***************************************************************************)
(* Properties of the M3FS framing                                          *)
(***************************************************************************)

\* The reads h are '<', bytes other than '>' and CR, '>' and CR.
WellFramed(h) ==
    /\ Len(h) >= 3
    /\ h[1] = "<" /\ h[Len(h) - 1] = ">" /\ h[Len(h)] = CR
    /\ \A i \in 2..(Len(h) - 2) : h[i] \notin {">", CR, Timeout}

\* The reads h end where the framing is broken: a first read that is not '<',
\* a CR or a timeout before '>', or a read after '>' that is not CR.
FramingBroken(h) ==
    /\ h # <<>>
    /\ \/ Len(h) = 1 /\ h[1] # "<"
       \/ /\ Len(h) >= 2 /\ h[1] = "<"
          /\ \A i \in 2..(Len(h) - 1) : h[i] \notin {">", CR, Timeout}
          /\ h[Len(h)] \in {CR, Timeout}
       \/ /\ Len(h) >= 3 /\ h[1] = "<"
          /\ \A i \in 2..(Len(h) - 2) : h[i] \notin {">", CR, Timeout}
          /\ h[Len(h) - 1] = ">" /\ h[Len(h)] # CR

\* C10: __receive returns a payload only for '<', payload bytes, '>', CR, and
\* the payload is the bytes between the delimiters; a first byte that is not
\* '<', a CR before '>', a byte that is not CR after '>', and a read that times
\* out at any of these points raise ProtocolError, and nothing is returned.
C10_M3FSFraming ==
    /\ m3pc = "done" =>
          /\ WellFramed(m3read)
          /\ m3ret = Some(SubSeq(m3read, 2, Len(m3read) - 2))
    /\ m3ret # None => m3pc = "done"
    /\ FramingBroken(m3read) =>
          /\ m3pc = "raised"
          /\ The(m3exc).kind = "ProtocolError"
          /\ m3ret = None
    /\ (m3pc = "raised" /\ The(m3exc).kind = "ProtocolError") => FramingBroken(m3read)

C10_Witness ==
    /\ m3pc = "raised" /\ The(m3exc).kind = "ProtocolError"
    /\ Len(m3read) = 4
    /\ m3read[3] = ">" /\ m3read[4] = Timeout

(***************************************************************************)
(* Properties of M3FS.command and of the construction of an M3FS           *)
(***************************************************************************)

\* The text res starts with the two digit ID of the command.
HasCommandId(res, command) ==
    Len(res) >= 2 /\ SubSeq(res, 1, 2) = SubSeq(M3Send(command, None), 2, 3)

\* C11: when __receive has returned a payload that does not start with the two
\* digit ID of the command sent (shorter than two characters, or not digits,
\* included), command raises a ProtocolError naming the command and carrying
\* the payload; data is returned only when the ID matches and a space follows.
C11_CommandIdChecked ==
    (m3pc = "ended" /\ m3call.op = "command" /\ The(m3out).res # None) =>
        LET res == The(The(m3out).res)
            end == The(m3out).end
        IN  /\ ~HasCommandId(res, m3call.command) =>
                  /\ end.kind = "ProtocolError"
                  /\ end.query = [command |-> m3call.command]
                  /\ end.response = Some(res)
            /\ (end.kind = "return" /\ end.value # None) =>
                  /\ HasCommandId(res, m3call.command)
                  /\ res[3] = " "

\* The reads of the version exchange pass the framing and the ID validation:
\* '<', "01", nothing or a space and the version, '>' and CR.
ExchangeValid(reads) ==
    /\ WellFramed(reads)
    /\ LET res == SubSeq(reads, 2, Len(reads) - 2)
       IN  /\ HasCommandId(res, 1)
           /\ Len(res) > 2 => res[3] = " "

\* C12: construction raises ConnectionFailure when the port cannot be opened or
\* the version exchange fails the framing or the ID validation, raises
\* VersionNotSupported carrying the version read when the exchange succeeds
\* with another version, and gives an instance only for the supported version.
C12_ConstructionOutcomes ==
    (m3pc = "ended" /\ m3call.op = "init") =>
        IF m3sent = <<>>
        THEN The(m3out) = [kind |-> "ConnectionFailure"]
        ELSE LET reads == The(m3out).reads
                 end == The(m3out).end
                 version == Slice(reads, 5, Len(reads) - 2)
             IN  /\ ~ExchangeValid(reads) => end.kind = "ConnectionFailure"
                 /\ (ExchangeValid(reads) /\ version # SupportedVersion) =>
                       /\ end.kind = "VersionNotSupported"
                       /\ end.version \in {None, Some(version)}
                 /\ end.kind = "instance" =>
                       ExchangeValid(reads) /\ version = SupportedVersion

(***************************************************************************)
(* Properties of the status queries of the CNCRouter                       *)
(***************************************************************************)

\* The value the dictionary is to hold for an element of a report.
ExpectedValue(f) ==
    IF f.items = <<>> THEN [kind |-> "none"]
    ELSE IF Len(f.items) >= 2 THEN [kind |-> "list", items |-> f.items]
    ELSE [kind |-> "str", text |-> f.items[1]]

\* C14: a report '<S|k1:v1|...|kn:vn>' with S a CNCStatus parses to the status
\* S and a dictionary of exactly the keys k1..kn, where a key maps to the list
\* of the items between commas when its value has a comma, to the value as a
\* text when it has none, and to no value when the element has no ':'.
C14_StatusParsing ==
    \A w \in Reports.words \cap CNCStatus, fs \in Reports.lists :
        (/\ cncpc = "ended" /\ cnccall.op = "get_current_status"
         /\ cncStatus = ReportText(w, fs)) =>
            /\ The(cncOut).kind = "status"
            /\ The(cncOut).cncstatus = w
            /\ DOMAIN The(cncOut).others = {fs[i].key : i \in 1..Len(fs)}
            /\ \A i \in 1..Len(fs) :
                  (\A j \in (i + 1)..Len(fs) : fs[j].key # fs[i].key) =>
                      The(cncOut).others[fs[i].key] = ExpectedValue(fs[i])

C14_Witness ==
    /\ cncpc = "ended" /\ cnccall.op = "get_current_status"
    /\ cncOut # None /\ The(cncOut).kind = "status"
    /\ \E k \in DOMAIN The(cncOut).others : The(cncOut).others[k].kind = "list"
    /\ \E k \in DOMAIN The(cncOut).others : The(cncOut).others[k].kind = "none"

\* The last line read is a report with an element WCO.
ReportHasWCO ==
    \E w \in Reports.words, fs \in Reports.lists :
        cncStatus = ReportText(w, fs) /\ \E i \in 1..Len(fs) : fs[i].key = Text.WCO

\* The numbers of the last element of key k in the elements fs.
ItemsOf(fs, k) ==
    LET i == CHOOSE n \in 1..Len(fs) :
                 fs[n].key = k /\ \A j \in (n + 1)..Len(fs) : fs[j].key # k
    IN  [n \in 1..Len(fs[i].items) |-> DecValue(fs[i].items[n])]

\* C15: the position getter ends only on a status report that has WCO, unless
\* get_current_status raised; the position it returns is MPos minus WCO,
\* component by component, both of that last report.
C15_PositionFromReportWithWCO ==
    (cncpc = "ended" /\ cnccall.op = "position") =>
        /\ \/ ReportHasWCO
           \/ The(cncOut).kind = "CNCError"
           \/ /\ The(cncOut).kind = "ValueError"
              /\ \E w \in Reports.words \ CNCStatus, fs \in Reports.lists :
                    cncStatus = ReportText(w, fs)
        /\ The(cncOut).kind = "return" =>
              \E w \in Reports.words, fs \in Reports.lists :
                 /\ cncStatus = ReportText(w, fs)
                 /\ \E i \in 1..Len(fs) : fs[i].key = Text.WCO
                 /\ \E i \in 1..Len(fs) : fs[i].key = Text.MPos
                 /\ Len(The(cncOut).value) = Len(ItemsOf(fs, Text.MPos))
                 /\ Len(The(cncOut).value) = Len(ItemsOf(fs, Text.WCO))
                 /\ \A n \in 1..Len(The(cncOut).value) :
                       The(cncOut).value[n] = ItemsOf(fs, Text.MPos)[n] - ItemsOf(fs, Text.WCO)[n]

C15_Witness ==
    /\ cncpc = "ended" /\ cnccall.op = "position" /\ cnccall.n = 2
    /\ cncOut # None /\ The(cncOut).kind = "return"
    /\ The(cncOut).value = <<1, 1>>

\* C16: when the answer to the status query is 'ALARM:1', get_current_status
\* reads one more line and raises CNCError with status ALARM and that line as
\* its message; it raises nothing else and returns no status.
C16_AlarmOneRaised ==
    (cncpc = "ended" /\ cnccall.op = "get_current_status" /\ cncStatus = Text.ALARM1) =>
        /\ cncOut = Some([kind |-> "CNCError", message |-> cnccall.last, cncstatus |-> Text.Alarm])
        /\ Len(cncLog) >= 3
        /\ cncLog[Len(cncLog)].e = "r" /\ cncLog[Len(cncLog) - 1].e = "r"

C16_Witness ==
    /\ cncpc = "ended" /\ cnccall.op = "get_current_status" /\ cncStatus = Text.ALARM1
    /\ cnccall.last = Text.MsgReset
    /\ cncOut # None /\ The(cncOut).kind = "CNCError"

\* C17: every line that starts with 'ALARM:' or 'error:' in answer to a status
\* query is raised as a CNCError carrying the message received; it is neither
\* parsed nor answered by None.
C17_EveryAlarmRaised ==
    (/\ cncpc = "ended" /\ cnccall.op = "get_current_status"
     /\ \/ StartsWith(cncStatus, <<"A", "L", "A", "R", "M", ":">>)
        \/ StartsWith(cncStatus, <<"e", "r", "r", "o", "r", ":">>)) =>
        The(cncOut).kind = "CNCError"

\* The number of writes in a log.
WritesIn(log) == Cardinality({i \in 1..Len(log) : log[i].e = "w"})

\* C18: one get_current_status writes '?' at most twice, the second time right
\* after a first read that was empty; when the read after the retry is empty
\* too, the call ends there and returns None.
C18_EmptyReadRetriedOnce ==
    cnccall.op = "get_current_status" =>
        /\ WritesIn(cncLog) <= 2
        /\ WritesIn(cncLog) = 2 =>
              /\ Len(cncLog) >= 3
              /\ cncLog[1].e = "w" /\ cncLog[2] = [e |-> "r", empty |-> TRUE] /\ cncLog[3].e = "w"
        /\ (Len(cncLog) >= 4 /\ cncLog[2] = [e |-> "r", empty |-> TRUE] /\ cncLog[4] = [e |-> "r", empty |-> TRUE]) =>
              /\ cncpc = "ended"
              /\ cncOut = Some([kind |-> "None"])
              /\ Len(cncLog) = 4

C18_Witness ==
    /\ cncpc = "ended" /\ cnccall.op = "get_current_status"
    /\ Len(cncLog) = 4 /\ cncLog[2] = [e |-> "r", empty |-> TRUE] /\ cncLog[4] = [e |-> "r", empty |-> TRUE]
    /\ cncOut = Some([kind |-> "None"])

\* C13: a construction whose handshake fails (the port does not open, or the
\* first line received after the reset does not start with 'Grbl' and end with
\* "['$' for help]") raises ConnectionFailure and gives no instance.
C13_FailedHandshakeIsTerminal ==
    (cncpc = "ended" /\ cnccall.op = "init") =>
        LET responses == IF cnccall.received = <<>> THEN <<>> ELSE cnccall.received[1]
            prompt == /\ responses # <<>>
                      /\ StartsWith(responses[1], Text.Grbl)
                      /\ EndsWith(responses[1], Text.ForHelp)
        IN  ~prompt => cncOut = Some([kind |-> "ConnectionFailure"])

PIHeaderOk(reply, address) ==
    /\ Len(reply) = 3
    /\ reply[1] \in {<<"0">>, <<"0", "0">>}
    /\ address # None
    /\ reply[2] \in {ToDec(The(address)), <<"0">> \o ToDec(The(address))}

\* C20: query returns a payload only from a reply whose first two parts are 0
\* and the address queried, and the payload is the rest of that reply; a reply
\* with another header, or with less than three parts, makes query raise.
C20_PIHeaderChecked ==
    (pipc = "ended" /\ piLog # <<>>) =>
        /\ The(piOut).kind = "return" =>
              /\ PIHeaderOk(picall.reply, picall.address)
              /\ The(piOut).value = <<picall.reply[3]>>
        /\ ~PIHeaderOk(picall.reply, picall.address) =>
              The(piOut).kind \in {"AssertionError", "ValueError"}

C20_Witness ==
    /\ pipc = "ended" /\ picall.address = Some(2)
    /\ picall.reply = <<<<"0", "0">>, <<"2">>, <<"a", " ", "b">>>>
    /\ piOut = Some([kind |-> "return", value |-> <<<<"a", " ", "b">>>>])

\* The line is a continued line of the device at the address: its payload
\* is followed by a space before the line feed.
PIContinued(line, address) ==
    /\ Len(line) >= 6 /\ line[1] = "0" /\ line[2] = " "
    /\ <<line[3]>> = ToDec(The(address)) /\ line[4] = " "
    /\ line[Len(line) - 1] = " " /\ line[Len(line)] = LF

\* C21: when the device answers with k >= 1 continued lines and then a line
\* that is not continued, query reads the k+1 lines and returns their k+1
\* payloads in order.
C21_ContinuedLinesAccumulated ==
    (/\ pipc = "ended" /\ piLog # <<>> /\ picall.address # None
     /\ Len(picall.reply) >= 2
     /\ \A i \in 1..(Len(picall.reply) - 1) : PIContinued(picall.reply[i], picall.address)
     /\ LET last == picall.reply[Len(picall.reply)]
        IN  /\ ~PIContinued(last, picall.address)
            /\ <<last[3]>> = ToDec(The(picall.address)))
    => /\ picall.read = Len(picall.reply)
       /\ The(piOut).kind = "return"
       /\ Len(The(piOut).value) = Len(picall.reply)
       /\ \A i \in 1..Len(picall.reply) :
              The(piOut).value[i] = Strip(Slice(picall.reply[i], 4, Len(picall.reply[i])))

(***************************************************************************)
(* Properties of Tic.go_home                                               *)
(***************************************************************************)

\* The event is a read of MISC_FLAGS that shows homing active, or not.
IsPoll(e, active) == e.cmd = "GET_VARIABLE" /\ e.offset = 1 /\ BitSet(e.value, 4) = active

\* C22: go_home with wait sends exit-safe-start, then GO_HOME with the
\* direction, then only polls MISC_FLAGS; each poll that shows bit 4 set is
\* followed by exit-safe-start before the next poll, and the operation has
\* returned exactly when its last poll shows the bit clear.
C22_GoHomePolls ==
    (runcall.op = "go_home" /\ runcall.wait) =>
        /\ runLog[1] = [cmd |-> "EXIT_SAFE_START"]
        /\ runLog[2] = [cmd |-> "GO_HOME", data |-> runcall.direction]
        /\ \A i \in 3..Len(runLog) :
              \/ /\ IsPoll(runLog[i], TRUE)
                 /\ i < Len(runLog) /\ runLog[i + 1] = [cmd |-> "EXIT_SAFE_START"]
              \/ IsPoll(runLog[i], FALSE) /\ i = Len(runLog)
              \/ runLog[i] = [cmd |-> "EXIT_SAFE_START"] /\ IsPoll(runLog[i - 1], TRUE)
        /\ runpc = "ended" <=> (Len(runLog) > 2 /\ IsPoll(runLog[Len(runLog)], FALSE))

C22_Witness ==
    /\ runcall.op = "go_home" /\ runcall.wait /\ runpc = "ended"
    /\ Len(runLog) = 7
    /\ IsPoll(runLog[3], TRUE) /\ IsPoll(runLog[5], TRUE) /\ IsPoll(runLog[7], FALSE)

(***************************************************************************)
(* Properties of the construction of Corvus                                *)
(***************************************************************************)

\* The reply to getunit reports unit 1 for each of the three axes.
UnitOneForEveryAxis(reply) ==
    LET res == split_ws(reply)
    IN  Len(res) >= 3 /\ \A i \in 1..Len(res) : PyInt(res[i]) = Some(1)

\* C23: the construction sets the unit to 1 for all axes and asks it back;
\* it completes, enabling the joystick, only if the reply reports unit 1 for
\* every axis, and with any other reply it raises and sends nothing more.
C23_UnitVerified ==
    (runcall.op = "Corvus" /\ runpc = "ended" /\ runLog # <<>>) =>
        /\ SubSeq(runLog, 1, 3) = <<"3 setdim ", "1 -1 setunit ", "-1 getunit ">>
        /\ IF UnitOneForEveryAxis(runcall.reply)
           THEN runOut = Some([kind |-> "instance"]) /\ runLog[Len(runLog)] = "1 j "
           ELSE /\ The(runOut).kind \in {"AssertionError", "ValueError"}
                /\ Len(runLog) = 3

(***************************************************************************)
(* Properties of the replies that break the framing                        *)
(***************************************************************************)

\* C24: a reply that breaks the framing ends the operation with a
\* ProtocolError that holds the query and the reply received; here, a reply to
\* the status query of CNCRouter that is not a report between chevrons (and
\* is no alarm or error line) is neither answered by None nor parsed.
C24_BadFramingRaisesProtocolError ==
    (/\ cncpc = "ended" /\ cnccall.op = "get_current_status"
     /\ cncStatus # <<>>
     /\ ~(StartsWith(cncStatus, <<"<">>) /\ EndsWith(cncStatus, <<">">>))
     /\ ~StartsWith(cncStatus, <<"A", "L", "A", "R", "M", ":">>)
     /\ ~StartsWith(cncStatus, <<"e", "r", "r", "o", "r", ":">>)) =>
        cncOut = Some([kind |-> "ProtocolError", query |-> <<"?">>, response |-> cncStatus])

(***************************************************************************)
(* Properties of the decoding of reported values                           *)
(***************************************************************************)

\* The status word of a line between chevrons: what stands before the first
\* '|' or the closing chevron.
StatusWord(line) == Split1(SubSeq(line, 2, Len(line) - 1), "|")[1]

\* C25: a decode either fails with an error or gives the very value on the
\* wire: a state byte, fault bits, a status word or an error number that is
\* not a member of its enumeration is never decoded into a member.
C25_UnknownValuesFail ==
    (runpc = "ended" /\ runcall.op \in {"get_error_and_state", "get_current_status", "error"}) =>
        LET out == The(runOut)
            wire == runcall.wire
        IN  CASE runcall.op = "get_error_and_state" ->
                   IF /\ IsHex(wire)
                      /\ HexValue(SubSeq(wire, 5, 6)) \in {State[n] : n \in DOMAIN State}
                      /\ \A b \in 0..15 : BitSet(HexValue(SubSeq(wire, 1, 4)), b) =>
                                             b \in {Error[f] : f \in DOMAIN Error}
                   THEN /\ out.kind = "ok"
                        /\ State[out.state] = HexValue(SubSeq(wire, 5, 6))
                        /\ \A f \in DOMAIN Error :
                              f \in out.error <=> BitSet(HexValue(SubSeq(wire, 1, 4)), Error[f])
                   ELSE out.kind = "ValueError"
              [] runcall.op = "get_current_status" ->
                   IF StatusWord(wire) \in CNCStatus
                   THEN out.kind = "status" /\ out.cncstatus = StatusWord(wire)
                   ELSE out.kind = "ValueError"
              [] runcall.op = "error" ->
                   IF PyInt(wire) # None /\ The(PyInt(wire)) \in PIError
                   THEN out = [kind |-> "PIError", value |-> The(PyInt(wire))]
                   ELSE out.kind = "ValueError"

C25_Witness ==
    /\ runpc = "ended" /\ runcall.op = "error"
    /\ runcall.wire = <<"1", "0", "1", "4">>
    /\ runOut = Some([kind |-> "ValueError"])

(***************************************************************************)
(* Properties of Vector                                                    *)
(***************************************************************************)

\* C26: for vectors a and b of equal length, (a + b) - b == a is true; a + b
\* and a - b are new vectors of the sums and of the differences of the
\* components, and a and b are what they were.
C26_AddSubRoundTrip ==
    (runpc = "ended" /\ runcall.op \in {"add", "sub", "roundtrip"}
       /\ Len(runcall.a) = Len(runcall.b)) =>
        LET out == The(runOut)
            a == runcall.a
            b == runcall.b
        IN  /\ out.kind = "return"
            /\ runcall.op = "roundtrip" => out.value = TRUE
            /\ runcall.op \in {"add", "sub"} =>
                  /\ Len(out.data) = Len(a)
                  /\ \A i \in 1..Len(a) :
                        out.data[i] = IF runcall.op = "add" THEN a[i] + b[i] ELSE a[i] - b[i]
                  /\ out.self = a /\ out.other = b

C26_Witness ==
    /\ runpc = "ended" /\ runcall.op = "roundtrip"
    /\ runcall.a = <<2, 0 - 1, 0>> /\ runcall.b = <<0 - 1, 2, 2>>
    /\ runOut = Some([kind |-> "return", value |-> TRUE])

\* C27: Vector(v1..vk, dim=n) with k <= n has n components, v1..vk and then
\* zeros; with k > n it raises an error; without dim it is v1..vk.
C27_VectorInit ==
    (runpc = "ended" /\ runcall.op = "Vector") =>
        LET out == The(runOut)
            args == runcall.args
        IN  IF runcall.dim = None THEN out = [kind |-> "return", data |-> args]
            ELSE IF Len(args) > The(runcall.dim) THEN out.kind = "ValueError"
            ELSE /\ out.kind = "return"
                 /\ Len(out.data) = The(runcall.dim)
                 /\ \A i \in 1..Len(out.data) :
                       out.data[i] = IF i <= Len(args) THEN args[i] ELSE 0

C27_Witness ==
    /\ runpc = "ended" /\ runcall.op = "Vector"
    /\ runcall.args = <<2, 0 - 1>> /\ runcall.dim = Some(3)
    /\ runOut = Some([kind |-> "return", data |-> <<2, 0 - 1, 0>>])

\* C28: +, -, * and / of two vectors return the vector of the results
\* component by component when the lengths are equal, and raise the error
\* of the dimensions otherwise; nothing is returned for different lengths.
C28_EqualLengthsOrError ==
    (runpc = "ended" /\ runcall.op \in {"add", "sub", "mul", "truediv"}) =>
        LET out == The(runOut)
        IN  IF Len(runcall.a) = Len(runcall.b)
            THEN out.kind = "return" /\ Len(out.data) = Len(runcall.a)
            ELSE out.kind = "ValueError"

(***************************************************************************)
(* Properties of SMC100.set_position                                       *)
(***************************************************************************)

\* C29: a blocking set_position that found the axis MOVING at its first poll
\* returns in the end once the controller has left the MOVING state.
C29_BlockingSetPositionReturns ==
    (/\ runcall.op = "set_position" /\ runcall.blocking
     /\ runpc = "sleep" /\ runcall.dev # "MOVING") ~> (runpc = "ended")

(***************************************************************************)
(* Properties of the loops that wait for the device                        *)
(***************************************************************************)

\* C30: with a wait_routine set, every turn of a loop that polls the device
\* and finds it busy calls the routine: in wait_move_finished, in the position
\* setters of M3FS and Tic and in the wait of PI.home alike.
C30_WaitRoutineInEveryPollLoop ==
    wait_routine =>
        \A i \in 1..Len(events) :
            events[i] \in {"poll_T", "setter_poll_T", "home_poll_T"} =>
                IF i < Len(events) THEN events[i + 1] = "routine" ELSE pc = "routine"

(***************************************************************************)
(* Properties of the position setter of M3FS                               *)
(***************************************************************************)

\* C31: the position setter of M3FS returns only after a status reply that
\* came after the acknowledgement of MOVE_TO_TARGET shows bit 2 (mask 0x04)
\* of the motor status clear, and every status reply before it showed the
\* bit set.
C31_SetterReturnsWhenStopped ==
    (runcall.op = "m3_position" /\ runpc \in {"poll", "ended"}
       /\ (runpc = "ended" => runOut = Some([kind |-> "return"]))) =>
        LET reads == {i \in 1..Len(runLog) : runLog[i].e = "r"}
        IN  /\ Len(runLog) >= 2
            /\ runLog[1].e = "w" /\ runLog[1].command = 8 /\ runLog[2].e = "ack"
            /\ \A i \in reads :
                  /\ i > 2 /\ runLog[i - 1].e = "w" /\ runLog[i - 1].command = 10
                  /\ (runpc = "ended" /\ i = Len(runLog))
                        <=> ~BitSet(runLog[i].motor_status.lo, 2)
            /\ runpc = "ended" => Len(runLog) \in reads

C31_Witness ==
    /\ runcall.op = "m3_position" /\ runpc = "ended" /\ runOut = Some([kind |-> "return"])
    /\ Len(runLog) = 8
    /\ runLog[4].motor_status.lo = 4 /\ runLog[6].motor_status.lo = 12
    /\ runLog[8].motor_status.lo = 3

\* C32: a count of -2^31..2^31-1 is sent as 8 hexadecimal digits which,
\* decoded as the getter decodes the position (big-endian, signed), give the
\* count again; a count out of that range is refused with an error and
\* nothing is sent.
C32_PositionRoundTrip ==
    (runcall.op = "m3_position") =>
        IF runcall.count.hi >= 0 - 32768 /\ runcall.count.hi <= 32767
        THEN /\ runLog[1].e = "w" /\ runLog[1].command = 8
             /\ runLog[1].data = runcall.data
             /\ Len(The(runcall.data)) = 8
             /\ \A i \in 1..8 : \E d \in 1..16 : LowerHex[d] = The(runcall.data)[i]
             /\ from_hex(The(runcall.data), TRUE) = Some(runcall.count)
             /\ \A i \in 1..Len(runLog) :
                   (runLog[i].e = "r" /\ runLog[i].position.hi # 0 - 1) =>
                       runLog[i].position = runcall.count
        ELSE runpc = "ended" /\ runOut = Some([kind |-> "OverflowError"]) /\ runLog = <<>>

C32_Witness ==
    /\ runcall.op = "m3_position" /\ runcall.count = [hi |-> 0 - 32768, lo |-> 1]
    /\ runcall.data = Some(<<"8", "0", "0", "0", "0", "0", "0", "1">>)
    /\ \E i \in 1..Len(runLog) : runLog[i].e = "r" /\ runLog[i].position = runcall.count

(***************************************************************************)
(* Properties of Tic.write_32                                              *)
(***************************************************************************)

\* C33: write_32 sends a value of 32 bits, negative or not, as two fields of
\* 16 bits: wValue is the low half and wIndex the high half of its two's
\* complement on 32 bits, both in 0..0xFFFF.
C33_Write32Fields ==
    (runcall.op = "write_32" /\ runpc = "ended") =>
        /\ runLog[1].wValue = runcall.data.lo
        /\ runLog[1].wIndex = runcall.data.hi % 65536
        /\ runLog[1].wValue \in 0..65535 /\ runLog[1].wIndex \in 0..65535

(***************************************************************************)
(* Properties of the 'ok' lines read by get_current_status                 *)
(***************************************************************************)

\* C34: a line 'ok' read in reply to a status query is discarded and the
\* next line is read, however many 'ok' lines come first: 'ok' is never the
\* status that is parsed and never ends the call, and every 'ok' read is
\* followed by one more read without a new query.
C34_StrayOkDiscarded ==
    cnccall.op = "get_current_status" =>
        /\ cncStatus = Text.ok => (cncpc = "ok" /\ cncOut = None)
        /\ cncpc = "ended" =>
              /\ Cardinality({i \in 1..Len(cncLog) : cncLog[i].e = "r"}) >= cnccall.oks + 1
              /\ \A i \in 1..Len(cncLog) : cncLog[i].e = "w" => i <= 3

C34_Witness ==
    /\ cnccall.op = "get_current_status" /\ cncpc = "ended"
    /\ cnccall.oks = 2 /\ Len(cncLog) = 4
    /\ cncOut # None /\ The(cncOut).kind = "status"

(***************************************************************************)
(* Properties of the position getter of PI                                 *)
(***************************************************************************)

\* The number a reply gives as its position.
PIReplied(reply) ==
    CASE reply.text = <<"5">> -> 5
      [] reply.text = <<"-", "2">> -> 0 - 2
      [] reply.text = <<"1", "2">> -> 12

\* C35: the position getter of PI writes one query 'a POS?' per address, in
\* the order of the addresses, each after the reply to the one before was
\* read, and returns the vector of as many components as addresses whose
\* component i is the number replied by address i.
C35_PositionPerAddress ==
    (runcall.op = "pi_position") =>
        /\ \A i \in 1..Len(runLog) :
              IF i % 2 = 1
              THEN /\ (i + 1) \div 2 <= Len(runcall.addresses)
                   /\ runLog[i] = [e |-> "w", text |->
                         ToDec(runcall.addresses[(i + 1) \div 2]) \o <<" ", "P", "O", "S", "?", LF>>]
              ELSE runLog[i].e = "r"
        /\ (runpc = "ended" /\ The(runOut).kind = "return") =>
              /\ Len(runLog) = 2 * Len(runcall.addresses)
              /\ Len(The(runOut).data) = Len(runcall.addresses)
              /\ \A i \in 1..Len(runcall.addresses) :
                    /\ runLog[2 * i].reply.sender = runcall.addresses[i]
                    /\ The(runOut).data[i] = PIReplied(runLog[2 * i].reply)

C35_Witness ==
    /\ runcall.op = "pi_position" /\ runpc = "ended"
    /\ runcall.addresses = <<3, 1, 2>>
    /\ runOut = Some([kind |-> "return", data |-> <<5, 0 - 2, 12>>])

(***************************************************************************)
(* Properties of ErrorAndState of SMC100                                   *)
(***************************************************************************)

\* The members of State named NOT_REFERENCED_FROM_RESET to
\* NOT_REFERENCED_FROM_JOGGING in the order of their values.
NotReferencedStates ==
    {"NOT_REFERENCED_FROM_RESET", "NOT_REFERENCED_FROM_HOMING",
     "NOT_REFERENCED_FROM_CONFIGURATION", "NOT_REFERENCED_FROM_DISABLE",
     "NOT_REFERENCED_FROM_READY", "NOT_REFERENCED_FROM_MOVING",
     "NOT_REFERENCED_STAGE_ERROR", "NOT_REFERENCED_FROM_JOGGING"}

\* C36: for every state of the controller at most one of is_ready, is_moving,
\* is_homing, is_jogging and is_disabled holds, each of them implies
\* is_referenced, and is_referenced is false exactly for the states from
\* NOT_REFERENCED_FROM_RESET to NOT_REFERENCED_FROM_JOGGING.
C36_StatePropertiesExclusive ==
    (runcall.op = "error_and_state" /\ runpc = "ended" /\ The(runOut).kind = "ok") =>
        LET is == The(runOut).is
            five == <<is.is_ready, is.is_moving, is.is_homing, is.is_jogging, is.is_disabled>>
        IN  /\ Cardinality({i \in 1..5 : five[i]}) <= 1
            /\ (\E i \in 1..5 : five[i]) => is.is_referenced
            /\ ~is.is_referenced <=> The(runOut).state \in NotReferencedStates

C36_Witness ==
    /\ runcall.op = "error_and_state" /\ runpc = "ended"
    /\ The(runOut).kind = "ok"
    /\ The(runOut).state = "NOT_REFERENCED_FROM_JOGGING"
    /\ ~The(runOut).is.is_referenced

(***************************************************************************)
(* Properties of SMC100 instances that share a Link                        *)
(***************************************************************************)

\* The digits a line starts with.
LeadingDigits(line) ==
    LET n == CHOOSE k \in 0..Len(line) :
                 /\ \A i \in 1..k : \E d \in 1..10 : HexDigits[d] = line[i]
                 /\ k < Len(line) => ~\E d \in 1..10 : HexDigits[d] = line[k + 1]
    IN  SubSeq(line, 1, n)

\* C37: every command an operation of an SMC100 instance writes on a shared
\* Link starts with one of the addresses of that instance.
C37_CommandsCarryOwnAddress ==
    (runcall.op \in {"position", "move_relative", "set_position", "home",
                     "is_moving", "is_disabled"} /\ "own" \in DOMAIN runcall) =>
        \A i \in 1..Len(runLog) :
            \E k \in 1..Len(runcall.own) : LeadingDigits(runLog[i]) = ToDec(runcall.own[k])

(***************************************************************************)
(* Properties of Link.query on a Link without lazy queries                 *)
(***************************************************************************)

\* The writes and the reads of the running call.
Written == Len(SelectSeq(linkLog, LAMBDA e : e.ev = "w"))
ReadBack == Len(SelectSeq(linkLog, LAMBDA e : e.ev = "r"))

\* C38: when only queries that fetch their answer are made, the answers due
\* or unread on the link are those to the requests the running call wrote and
\* has not read yet: each line a call reads is the answer to the request it
\* wrote last, the payload returned is taken from the answer to the last
\* request of the call, and a call that returned leaves no answer behind.
C38_QueryReadsItsOwnReply ==
    /\ Len(linkPending) + LinesIn(linkRx) = Written - ReadBack
    /\ \A i \in 1..Len(linkLog) : linkLog[i].ev = (IF i % 2 = 1 THEN "w" ELSE "r")
    /\ lpc \in {"idle", "done"} => linkPending = <<>> /\ linkRx = <<>>
    /\ (lpc = "done" /\ lcall.op = "query") =>
          /\ linkLog[Len(linkLog)].ev = "r"
          /\ The(lastResp).out.kind = "ok"
          /\ lret = Some(The(lastResp).out.payload)
          /\ The(lastResp).received =
                QueryString(lcall.addrs[1], lcall.command) \o The(lret)

C38_Witness ==
    /\ lpc = "done" /\ lcall.op = "query" /\ ~lcall.lazy
    /\ Written = 2 /\ ReadBack = 2
    /\ lret = Some(<<"1", "2">>)
    /\ linkPending = <<>> /\ linkRx = <<>>

(***************************************************************************)
(* Properties of the status queries of CNCRouter                           *)
(***************************************************************************)

\* C39: the status a call of CNCRouter parsed last is the answer of GRBL to a
\* '?' written by that call, and a call that has ended leaves no answer to a
\* '?' due or unread on the transport.
C39_StatusIsOwnReply ==
    (runcall.op \in StatusOps /\ runpc = "ended") =>
        /\ The(runOut).kind \in {"status", "return"} => runcall.got = "cur"
        /\ \A i \in 1..Len(runcall.due) : runcall.due[i].cmd # "?"
        /\ \A i \in 1..Len(runcall.unread) : runcall.unread[i].cmd # "?"

\* C40: is_moving and the position getter of CNCRouter end, by a return or an
\* exception, on a GRBL whose every answer to '?' is no status report.
C40_PollingEnds ==
    (runcall.op \in {"is_moving", "position"} /\ runpc = "recv") ~> (runpc = "ended")

====
